---- MODULE Spec2Model ----
(***************************************************************************)
(* A model of the cluster process supervisor and its IPC evaluate          *)
(* protocol (src/cluster/process.ts, src/cluster/processchild.ts) and of   *)
(* the gateway dispatch router (src/gateway/handler.ts).                   *)
(*                                                                         *)
(* SpecLife  : one ClusterProcess from construction: run(), the spawn      *)
(*             timeout, READY, exit and respawn of the children it forks.  *)
(* SpecEval  : the evaluate protocol between a ClusterProcess whose child  *)
(*             has readied up and that child: eval(), sendIPC(), the       *)
(*             child's onMessage and broadcastEval(), and the child's exit.*)
(* SpecBcast : one broadcastEval() of a worker, fanned out by the manager  *)
(*             to the ClusterProcess of every worker and collected.        *)
(* SpecPacket: GatewayHandler from construction: onPacket and the dispatch *)
(*             handlers it routes to.                                      *)
(***************************************************************************)
EXTENDS Integers, Sequences, FiniteSets, TLC

\* ------------------------------------------------------------------ bounds
MaxChildren == 2      \* children one ClusterProcess forks in a run of the model
MaxCalls == 2         \* eval(), sendIPC() and broadcastEval() calls made in SpecEval
MaxRuns == 2          \* run() calls made by the embedding application
MaxNonce == 2         \* distinct nonces callers use
MaxWorkers == 2       \* worker processes of the partition plan in SpecBcast
MaxPackets == 2       \* gateway packets received in SpecPacket
MaxMerges == 2        \* Member.merge calls made in SpecMerge
MaxEvents == 2        \* dispatch events handled in SpecCache and SpecChunks

\* ------------------------------------------------------------ JS values
Undef == [t |-> "undefined"]
JSNull == [t |-> "null"]
Value == [t |-> "value"]
\* the {message, name, stack} object the child builds from a thrown Error
ErrData == [t |-> "errdata", message |-> "m", name |-> "n", stack |-> "s"]
\* new Error(`Process has closed with '${code}' code and '${signal}' signal.`)
ExitError(code, signal) == [t |-> "Error", code |-> code, signal |-> signal]
SendError == [t |-> "senderror"]
ForkError == [t |-> "forkerror"]
TimeoutError == [t |-> "Error", text |-> "Cluster Child took too long to ready up"]
NoChildError == [t |-> "Error", text |-> "Cannot eval without a child!"]
Pair(x, isError) == [t |-> "pair", fst |-> x, snd |-> isError]
ChildRef(c) == [t |-> "child", id |-> c]

\* promise states
Pending == [s |-> "pending"]
Resolved(v) == [s |-> "resolved", v |-> v]
Rejected(e) == [s |-> "rejected", v |-> e]
\* resolve()/reject() of a promise that has settled already does nothing
Settle(p, outcome) == IF p = Pending THEN outcome ELSE p

Nonces == 1..MaxNonce
Children == 1..MaxChildren
NoChild == 0
\* what the evaluated code does in the worker: returns a value, returns null,
\* throws an Error object, throws (or rejects with) null/undefined
Codes == {"retVal", "retNull", "throwError", "throwNil"}
\* shards of the partition plan; the child owns CLUSTER_SHARD_START..END
NoShard == -1
Shards == 0..1
OwnedShards == {0}
\* (code, signal) pairs of a child's exit
Exits == {<<"1", "null">>, <<"null", "SIGTERM">>}

VARIABLES
  respawn,       \* manager.respawn
  process,       \* ClusterProcess.process: NoChild (null) or the child's id
  forked,        \* children forked so far: their ids are 1..forked
  alive,         \* children whose OS process has not exited
  killed,        \* children that were sent kill()
  runs,          \* run() calls: the promise, the timer and the once('ready') listener of each
  evalsWaiting,  \* ClusterProcess._evalsWaiting: nonce -> index into regs, 0 when absent
  regs,          \* one record per pair of promises eval() has built
  otherCalls,    \* eval() calls that found no child, and sendIPC() calls
  toChild,       \* envelopes sent to each child and not yet received by it
  fromChild,     \* envelopes sent by each child and not yet received by the parent
  announced,     \* children that have sent READY
  childSends,    \* broadcastEval() calls of the children
  executed,      \* how often cluster._eval ran in a child
  warns,         \* 'warn' events of the ClusterProcess
  childWarns,    \* ClientEvents.WARN events of the children's clients
  lastClose      \* payload of the last 'close' event: <<code, signal>>

procVars == <<respawn, process, forked, alive, killed, runs, evalsWaiting, regs,
              otherCalls, toChild, fromChild, announced, childSends, executed,
              warns, childWarns, lastClose>>

VARIABLES
  bCode,         \* what the broadcast code does when it runs in each worker
  bCaller,       \* the worker whose child calls broadcastEval()
  bAlive,        \* workers whose child runs
  bDown,         \* envelopes sent to each worker's child, not yet received
  bUp,           \* envelopes sent by each worker's child, not yet received
  bWaiting,      \* per ClusterProcess: the promise eval(code, nonce) returned
  bTargets,      \* the workers the manager sent the request to, in plan order
  bCollect,      \* the manager's collection: "idle", "collecting", "answered"
  bPromise,      \* the promise broadcastEval() returned to its caller
  bListening,    \* whether the 'message' listener of broadcastEval() is attached
  bExecuted      \* per worker: how often cluster._eval ran

bcastVars == <<bCode, bCaller, bAlive, bDown, bUp, bWaiting, bTargets, bCollect,
               bPromise, bListening, bExecuted>>

VARIABLES
  handlerOptions,   \* the options the GatewayHandler was constructed with
  disabledEvents,   \* GatewayHandler.disabledEvents
  rawListener,      \* client.hasEventListener(ClientEvents.RAW)
  subscriberThrows, \* whether the application's listener of the domain events throws
  received,         \* packets the gateway socket has emitted
  emitted,          \* notifications client.emit has delivered, in order
  members,          \* ids in the client's member cache
  readyWaiting,     \* READY handlers suspended at an await: <<packet, stage>>
  handlerThrew,     \* handler calls that ended in an exception
  propagated,       \* exceptions onPacket let through to the socket's emit
  rejections,       \* rejected promises of the async READY handler
  packets,          \* the packets received, in order
  handled           \* the calls handler.call(...) made: packet, name, notifications before it

packetVars == <<handlerOptions, disabledEvents, rawListener, subscriberThrows, received, emitted,
                members, readyWaiting, handlerThrew, propagated, rejections,
                packets, handled>>

VARIABLES
  cGuildsEnabled, \* client.guilds.enabled
  cMessageType,   \* client.messages.type
  loadAll,        \* GatewayHandler.shouldLoadAllMembers
  cGuilds,        \* ids in client.guilds
  cMemberCount,   \* guild.memberCount of the cached guilds
  cGuildRoles,    \* guild.roles of the cached guilds: role ids
  cMembers,       \* client.members: per guild id and user id, cached or not and _roles
  cUsers,         \* ids in client.users
  cVoice,         \* client.voiceStates: <<guild id, user id>>
  cChannels,      \* guild ids whose text channel is in client.channels
  cMessages,      \* guild ids a message of which is in client.messages
  cDms,           \* user ids that are a recipient of a cached DM channel
  cRelations,     \* ids in client.relationships
  mcLeft,         \* memberChunks.left
  mcSending,      \* memberChunks.sending
  mcDone,         \* memberChunks.done
  mcTimer,        \* whether memberChunks.timer is running
  mcRequests,     \* the requestGuildMembers calls made: the guild ids of each
  cEvents,        \* dispatch events handled so far
  cLast           \* the dispatch event handled last

cacheVars == <<cGuildsEnabled, cMessageType, loadAll, cGuilds, cMemberCount,
               cGuildRoles, cMembers, cUsers, cVoice, cChannels, cMessages, cDms,
               cRelations, mcLeft, mcSending, mcDone, mcTimer, mcRequests,
               cEvents, cLast>>

\* the entities of one guild, g1, and the reactions of one message, as the
\* update and reaction handlers see them
VARIABLES
  eGuild,     \* whether client.guilds has the guild
  ePremium,   \* guild.premiumSubscriptionCount
  eRoles,     \* guild.roles: per role id the Role object stored, 0 for none
  eObjects,   \* Role objects built so far; a new object takes the next number
  eMembers,   \* client.members of the guild: per user id cached or not,
              \* premiumSinceUnix set or not, the keys of _roles and the Role
              \* object each key refers to, 0 for null
  eVoice,     \* client.voiceStates of the guild: per user id "none", or the
              \* entry's channelId, "null" or "chan"
  eListening, \* client.hasEventListener of the update notifications
  rCached,    \* whether client.messages has the message
  rAlloc,     \* whether message._reactions is a collection
  rCounts,    \* message._reactions: per emoji id the reaction's count
  rHas,       \* the emoji ids message._reactions has
  eEvents,    \* dispatch events handled so far
  eLast       \* the dispatch event handled last and what it emitted

\* one Member object and the payloads merged into it
VARIABLES
  mMember,    \* the member's fields: guildId, nick, joinedAtUnix, the keys of
              \* _roles ({} for undefined) and a property no payload key names
  mSupplied,  \* per payload key the value supplied last, undefined left out
  mMerges,    \* merge calls made after the constructor's
  mLast       \* the payload merged last

mergeVars == <<mMember, mSupplied, mMerges, mLast>>

entVars == <<eGuild, ePremium, eRoles, eObjects, eMembers, eVoice, eListening,
             rCached, rAlloc, rCounts, rHas, eEvents, eLast, mergeVars>>

vars == <<procVars, bcastVars, packetVars, cacheVars, entVars>>

\* ------------------------------------------------------------- envelopes
\* ClusterIPCTypes.Eval: {code, nonce, result?, error?, ignored?}
EvalData(code, nonce) ==
  [code |-> code, nonce |-> nonce, ignored |-> FALSE, error |-> Undef, result |-> Undef]
\* {op, data, request, shard}
Envelope(op, data, request, shard) ==
  [op |-> op, data |-> data, request |-> request, shard |-> shard]
ReadyEnvelope == Envelope("READY", JSNull, FALSE, NoShard)

\* ClusterProcess after its constructor
ProcInit ==
  /\ respawn \in BOOLEAN
  /\ process = NoChild
  /\ forked = 0
  /\ alive = {}
  /\ killed = {}
  /\ runs = <<>>
  /\ evalsWaiting = [n \in Nonces |-> 0]
  /\ regs = <<>>
  /\ otherCalls = <<>>
  /\ toChild = [c \in Children |-> <<>>]
  /\ fromChild = [c \in Children |-> <<>>]
  /\ announced = {}
  /\ childSends = 0
  /\ executed = 0
  /\ warns = 0
  /\ childWarns = 0
  /\ lastClose = <<>>

\* ------------------------------------------------ ClusterProcess.run
\* What one call of run(options) does when the handle is `proc`: it returns the
\* live child at once when there is one; otherwise it forks (fork() may throw,
\* which rejects the promise of the async function), stores the new child in
\* this.process and, with options.wait, returns a promise that a 'ready' event
\* resolves and the Timers.Timeout, when options.timeout is set, rejects.
RunResult(proc, by, wait, timeout, forkThrows) ==
  IF proc # NoChild
    THEN [process |-> proc, forks |-> 0,
          rec |-> [child |-> proc, timer |-> "none", listening |-> FALSE,
                   state |-> Resolved(ChildRef(proc)), by |-> by]]
    ELSE IF forkThrows
      THEN [process |-> NoChild, forks |-> 0,
            rec |-> [child |-> NoChild, timer |-> "none", listening |-> FALSE,
                     state |-> Rejected(ForkError), by |-> by]]
      ELSE [process |-> forked + 1, forks |-> 1,
            rec |-> [child |-> forked + 1,
                     timer |-> IF wait /\ timeout THEN "armed" ELSE "none",
                     listening |-> wait,
                     state |-> IF wait THEN Pending
                                       ELSE Resolved(ChildRef(forked + 1)),
                     by |-> by]]

UserRuns == {i \in DOMAIN runs : runs[i].by = "user"}

run ==
  /\ Cardinality(UserRuns) < MaxRuns
  /\ \E wait \in BOOLEAN, timeout \in BOOLEAN, forkThrows \in BOOLEAN :
       LET r == RunResult(process, "user", wait, timeout, forkThrows) IN
       /\ forked + r.forks <= MaxChildren
       /\ process' = r.process
       /\ forked' = forked + r.forks
       /\ alive' = IF r.forks = 1 THEN alive \cup {r.process} ELSE alive
       /\ runs' = Append(runs, r.rec)
  /\ UNCHANGED <<respawn, killed, evalsWaiting, regs, otherCalls, toChild,
                 fromChild, announced, childSends, executed, warns, childWarns,
                 lastClose, bcastVars, packetVars, cacheVars, entVars>>

\* mutant: the timer callback kills whatever child the handle refers to
TimeoutOwnsHandleUnchecked(proc, child) == proc # NoChild

\* `this.process === process` in the timer callback of run()
TimeoutOwnsHandle(proc, child) == proc = child

\* The callback of timeout.start(options.timeout, ...) of run i: kills the child
\* and clears the handle when the handle is still this run's child, and rejects.
timeoutFires ==
  \E i \in DOMAIN runs :
    /\ runs[i].timer = "armed"
    /\ IF TimeoutOwnsHandle(process, runs[i].child)
         THEN /\ killed' = killed \cup {process}
              /\ process' = NoChild
         ELSE UNCHANGED <<killed, process>>
    /\ runs' = [runs EXCEPT ![i].timer = "fired",
                            ![i].state = Settle(@, Rejected(TimeoutError))]
    /\ UNCHANGED <<respawn, forked, alive, evalsWaiting, regs, otherCalls,
                   toChild, fromChild, announced, childSends, executed, warns,
                   childWarns, lastClose, bcastVars, packetVars, cacheVars, entVars>>

\* this.emit('ready'): every once('ready') listener a run() has registered
\* stops its timer and resolves its promise with the child that run forked.
EmitReady(rs) ==
  [i \in DOMAIN rs |->
     IF rs[i].listening
       THEN [rs[i] EXCEPT !.listening = FALSE,
                          !.timer = IF @ = "armed" THEN "stopped" ELSE @,
                          !.state = Settle(@, Resolved(ChildRef(rs[i].child)))]
       ELSE rs[i]]

\* ------------------------------------------------ ClusterProcess.onExit
\* mutant: the waiting evals are rejected with the Error instead of resolved
ResolveWaitingRejects(rg, waiting, code, signal) ==
  [i \in DOMAIN rg |->
     IF \E n \in Nonces : waiting[n] = i
       THEN [rg[i] EXCEPT !.outer = Settle(@, Rejected(ExitError(code, signal)))]
       ELSE rg[i]]

\* item.resolve([new Error(...), true]) for every entry of _evalsWaiting:
\* item.resolve is the resolve of the promise eval() returned to the caller
\* that registered the nonce, not of item.promise.
ResolveWaiting(rg, waiting, code, signal) ==
  [i \in DOMAIN rg |->
     IF \E n \in Nonces : waiting[n] = i
       THEN [rg[i] EXCEPT !.outer =
               Settle(@, Resolved(Pair(ExitError(code, signal), TRUE)))]
       ELSE rg[i]]

\* mutant: a failed respawn is swallowed
RespawnWarnsNever(w, outcome) == w

\* the catch of `await this.run()` in onExit: this.emit('warn', error)
RespawnWarns(w, outcome) == IF outcome.s = "rejected" THEN w + 1 ELSE w

\* The 'exit' event of child c: 'close' is emitted, the handle is cleared,
\* every waiting eval is resolved and removed, and with manager.respawn the
\* process is run again, a failure of which is emitted as 'warn'.
onExit(c, code, signal, forkThrows) ==
  LET r == RunResult(NoChild, "respawn", TRUE, FALSE, forkThrows) IN
  /\ lastClose' = <<code, signal>>
  /\ regs' = ResolveWaiting(regs, evalsWaiting, code, signal)
  /\ evalsWaiting' = [n \in Nonces |-> 0]
  /\ IF respawn
       THEN /\ forked + r.forks <= MaxChildren
            /\ process' = r.process
            /\ forked' = forked + r.forks
            /\ alive' = (alive \ {c}) \cup (IF r.forks = 1 THEN {r.process} ELSE {})
            /\ runs' = Append(runs, r.rec)
            /\ warns' = RespawnWarns(warns, r.rec.state)
       ELSE /\ process' = NoChild
            /\ alive' = alive \ {c}
            /\ UNCHANGED <<forked, runs, warns>>

\* Child c's OS process ends (on its own, by a signal, or after kill()); what
\* was in flight on its channel is lost and the parent's 'exit' listener runs.
childExits ==
  \E c \in alive, e \in Exits, forkThrows \in BOOLEAN :
    /\ ~respawn => ~forkThrows
    /\ onExit(c, e[1], e[2], forkThrows)
    /\ toChild' = [toChild EXCEPT ![c] = <<>>]
    /\ fromChild' = [fromChild EXCEPT ![c] = <<>>]
    /\ UNCHANGED <<respawn, killed, otherCalls, announced, childSends, executed,
                   childWarns, bcastVars, packetVars, cacheVars, entVars>>

\* ------------------------------------------------ ClusterProcess.eval
\* The record of one registration: `inner` is the promise built second (res,
\* rej: the one stored as item.promise), `outer` the promise built first
\* (resolve, reject: the one returned to the registering caller), joined by
\* promise.then(resolve).catch(reject). `reusers` counts the later callers
\* that were handed item.promise.
NewReg(nonce, child, fails) ==
  [nonce |-> nonce, child |-> child, inner |-> Pending, outer |-> Pending,
   listening |-> TRUE, reusers |-> 0,
   send |-> IF fails THEN "failing" ELSE "sent"]

\* calls made so far on the ClusterProcess and in its children
RECURSIVE SumReusers(_, _)
SumReusers(rg, i) == IF i = 0 THEN 0 ELSE rg[i].reusers + SumReusers(rg, i - 1)
CallsMade == Len(regs) + SumReusers(regs, Len(regs)) + Len(otherCalls) + childSends

\* mutant: a call for a waiting nonce sends its request again
EvalReuseResends(nonce) ==
  /\ regs' = [regs EXCEPT ![evalsWaiting[nonce]].reusers = @ + 1]
  /\ toChild' = [toChild EXCEPT ![process] =
       Append(@, Envelope("EVAL", EvalData("retVal", nonce), TRUE, NoShard))]
  /\ UNCHANGED <<evalsWaiting, otherCalls>>

\* eval() for a nonce that is in _evalsWaiting returns item.promise and sends
\* nothing.
EvalReuse(nonce) ==
  /\ regs' = [regs EXCEPT ![evalsWaiting[nonce]].reusers = @ + 1]
  /\ UNCHANGED <<evalsWaiting, toChild, otherCalls>>

\* eval() for a new nonce: adds the 'message' listener to the child, sends
\* {code, nonce} as an EVAL request (child.send may report an error later) and
\* registers {promise, resolve, reject} under the nonce.
EvalFirst(code, nonce, fails) ==
  /\ regs' = Append(regs, NewReg(nonce, process, fails))
  /\ evalsWaiting' = [evalsWaiting EXCEPT ![nonce] = Len(regs) + 1]
  /\ UNCHANGED otherCalls
  /\ IF fails
       THEN UNCHANGED toChild
       ELSE toChild' = [toChild EXCEPT ![process] =
                 Append(@, Envelope("EVAL", EvalData(code, nonce), TRUE, NoShard))]

eval ==
  /\ CallsMade < MaxCalls
  /\ \E code \in Codes, nonce \in Nonces, fails \in BOOLEAN :
       IF process = NoChild
         THEN /\ otherCalls' = Append(otherCalls, "evalNoChild")
              /\ UNCHANGED <<regs, evalsWaiting, toChild>>
         ELSE IF evalsWaiting[nonce] # 0
           THEN EvalReuse(nonce)
           ELSE EvalFirst(code, nonce, fails)
  /\ UNCHANGED <<respawn, process, forked, alive, killed, runs, fromChild,
                 announced, childSends, executed, warns, childWarns, lastClose, bcastVars, packetVars, cacheVars, entVars>>

\* item.promise settles, and promise.then(resolve).catch(reject) passes its
\* outcome on to the outer promise.
SettleInner(rg, outcome) ==
  [rg EXCEPT !.inner = Settle(@, outcome),
             !.outer = Settle(@, Settle(rg.inner, outcome))]

\* The catch of `await this.sendIPC(...)` in eval(): the send callback reported
\* an error: the listener is removed and item.promise rejected, which rejects
\* the outer promise through .catch(reject).
sendRejects ==
  \E i \in DOMAIN regs :
    /\ regs[i].send = "failing"
    /\ regs' = [regs EXCEPT ![i] = SettleInner([@ EXCEPT !.send = "failed",
                                                        !.listening = FALSE],
                                               Rejected(SendError))]
    /\ UNCHANGED <<respawn, process, forked, alive, killed, runs, evalsWaiting,
                   otherCalls, toChild, fromChild, announced, childSends,
                   executed, warns, childWarns, lastClose, bcastVars, packetVars, cacheVars, entVars>>

\* The value the 'message' listener of eval() settles item.promise with.
ListenerValue(data) ==
  IF data.ignored THEN Resolved(JSNull)
  ELSE IF data.error # Undef THEN Resolved(Pair(data.error, TRUE))
  ELSE Resolved(Pair(data.result, FALSE))

\* Whether the 'message' listener of registration rg acts on envelope m.
ListenerMatches(rg, m) ==
  /\ m.op = "EVAL"
  /\ m.data.nonce = rg.nonce

\* Every eval() listener attached to child c sees envelope m.
RunListeners(rg, c, m) ==
  [i \in DOMAIN rg |->
     IF rg[i].listening /\ rg[i].child = c /\ ListenerMatches(rg[i], m)
       THEN SettleInner([rg[i] EXCEPT !.listening = FALSE], ListenerValue(m.data))
       ELSE rg[i]]

\* this._evalsWaiting.delete(nonce) of every listener that acted on m
DeleteAnswered(waiting, rg, c, m) ==
  [n \in Nonces |->
     IF \E i \in DOMAIN rg :
          rg[i].listening /\ rg[i].child = c /\ ListenerMatches(rg[i], m) /\ rg[i].nonce = n
       THEN 0 ELSE waiting[n]]

\* ------------------------------------------------ ClusterProcess.onMessage
\* A 'message' event of child c: onMessage runs first (READY emits 'ready'; an
\* EVAL request is handed to the manager's broadcast, see SpecBcast), then the
\* listeners eval() has added to that child.
parentReceives ==
  \E c \in alive :
    /\ fromChild[c] # <<>>
    /\ LET m == Head(fromChild[c]) IN
       /\ runs' = IF m.op = "READY" THEN EmitReady(runs) ELSE runs
       /\ regs' = RunListeners(regs, c, m)
       /\ evalsWaiting' = DeleteAnswered(evalsWaiting, regs, c, m)
    /\ fromChild' = [fromChild EXCEPT ![c] = Tail(@)]
    /\ UNCHANGED <<respawn, process, forked, alive, killed, otherCalls, toChild,
                   announced, childSends, executed, warns, childWarns, lastClose, bcastVars, packetVars, cacheVars, entVars>>

\* ------------------------------------------------ ClusterProcess.sendIPC
\* sendIPC(op, data, request, shard) -> send({op, data, request, shard}): an
\* EVAL request aimed at a shard. send() resolves without sending when there
\* is no child, and rejects when child.send reports an error.
sendIPC ==
  /\ CallsMade < MaxCalls
  /\ \E code \in Codes, nonce \in Nonces, shard \in Shards, fails \in BOOLEAN :
       IF process = NoChild
         THEN /\ otherCalls' = Append(otherCalls, "ipcNoChild")
              /\ UNCHANGED toChild
         ELSE IF fails
           THEN /\ otherCalls' = Append(otherCalls, "ipcRejected")
                /\ UNCHANGED toChild
           ELSE /\ otherCalls' = Append(otherCalls, "ipcSent")
                /\ toChild' = [toChild EXCEPT ![process] =
                     Append(@, Envelope("EVAL", EvalData(code, nonce), TRUE, shard))]
  /\ UNCHANGED <<respawn, process, forked, alive, killed, runs, evalsWaiting,
                 regs, fromChild, announced, childSends, executed, warns,
                 childWarns, lastClose, bcastVars, packetVars, cacheVars, entVars>>

\* ------------------------------------------------ ClusterProcessChild
\* this.cluster.on('ready', () => this.sendIPC(ClusterIPCOpCodes.READY))
childReady ==
  \E c \in alive \ announced :
    /\ announced' = announced \cup {c}
    /\ fromChild' = [fromChild EXCEPT ![c] = Append(@, ReadyEnvelope)]
    /\ UNCHANGED <<respawn, process, forked, alive, killed, runs, evalsWaiting,
                   regs, otherCalls, toChild, childSends, executed, warns,
                   childWarns, lastClose, bcastVars, packetVars, cacheVars, entVars>>

\* What cluster._eval(code) does: "returns" with a value, or "throws" with the
\* thrown value.
EvalCode(code) ==
  CASE code = "retVal" -> [how |-> "returns", v |-> Value]
    [] code = "retNull" -> [how |-> "returns", v |-> JSNull]
    [] code = "throwError" -> [how |-> "throws", v |-> ErrData]
    [] OTHER -> [how |-> "throws", v |-> JSNull]

\* mutant: the child never checks the shard of a request
NotOwnedUnchecked(shard) == FALSE

\* Whether the child refuses a request aimed at message.shard
NotOwned(shard) == shard # NoShard /\ shard \notin OwnedShards

\* ClusterProcessChild.onMessage for an EVAL request m: the envelopes it sends
\* back. A request for a shard the child does not own is answered
\* {...data, ignored: true}; otherwise the code runs and its result, or the
\* {message, name, stack} of what it threw, is sent. Reading error.message of
\* a thrown null or undefined throws inside the catch block: the outer catch
\* emits WARN and nothing is sent.
ChildAnswer(m) ==
  IF NotOwned(m.shard)
    THEN <<Envelope("EVAL", [m.data EXCEPT !.ignored = TRUE], FALSE, NoShard)>>
    ELSE LET r == EvalCode(m.data.code) IN
         IF r.how = "returns"
           THEN <<Envelope("EVAL", [m.data EXCEPT !.result = r.v], FALSE, NoShard)>>
           ELSE IF r.v = JSNull
             THEN <<>>
             ELSE <<Envelope("EVAL", [m.data EXCEPT !.error = r.v], FALSE, NoShard)>>

childOnMessage ==
  \E c \in alive :
    /\ toChild[c] # <<>>
    /\ LET m == Head(toChild[c]) IN
       IF m.op = "EVAL" /\ m.request
         THEN /\ fromChild' = [fromChild EXCEPT ![c] = @ \o ChildAnswer(m)]
              /\ executed' = IF NotOwned(m.shard) THEN executed ELSE executed + 1
              /\ childWarns' = IF ~NotOwned(m.shard) /\ ChildAnswer(m) = <<>>
                                 THEN childWarns + 1 ELSE childWarns
         ELSE UNCHANGED <<fromChild, executed, childWarns>>
    /\ toChild' = [toChild EXCEPT ![c] = Tail(@)]
    /\ UNCHANGED <<respawn, process, forked, alive, killed, runs, evalsWaiting,
                   regs, otherCalls, announced, childSends, warns, lastClose, bcastVars, packetVars, cacheVars, entVars>>

\* ClusterProcessChild.broadcastEval: the child sends {code, nonce} as an EVAL
\* request to the parent, under a nonce Snowflake.generate() made.
childBroadcastEval ==
  \E c \in alive, code \in {"retVal"}, nonce \in Nonces :
    /\ CallsMade < MaxCalls
    /\ childSends' = childSends + 1
    /\ fromChild' = [fromChild EXCEPT ![c] =
         Append(@, Envelope("EVAL", EvalData(code, nonce), TRUE, NoShard))]
    /\ UNCHANGED <<respawn, process, forked, alive, killed, runs, evalsWaiting,
                   regs, otherCalls, toChild, announced, executed, warns,
                   childWarns, lastClose, bcastVars, packetVars, cacheVars, entVars>>

\* ================================================= broadcast evaluate
Workers == 1..MaxWorkers
\* the nonce Snowflake.generate() gave the broadcast
BNonce == 1
NotCalled == [s |-> "none"]
\* new ClusterIPCError(error)
ClusterIPCError(e) == [t |-> "ClusterIPCError", error |-> e]
\* {...data, results}
ResultsData(data, results) ==
  [code |-> data.code, nonce |-> data.nonce, ignored |-> data.ignored,
   error |-> data.error, result |-> data.result, results |-> results]

\* One broadcast of one worker among live workers: nothing sent yet
BcastInit ==
  /\ bCode \in [Workers -> Codes]
  /\ bCaller \in Workers
  /\ bAlive = Workers
  /\ bDown = [w \in Workers |-> <<>>]
  /\ bUp = [w \in Workers |-> <<>>]
  /\ bWaiting = [w \in Workers |-> NotCalled]
  /\ bTargets = <<>>
  /\ bCollect = "idle"
  /\ bPromise = NotCalled
  /\ bListening = FALSE
  /\ bExecuted = [w \in Workers |-> 0]

\* the broadcast part of the state where no broadcast is modelled
BcastIdle ==
  /\ bCode = [w \in Workers |-> "retVal"]
  /\ bCaller = 1
  /\ bAlive = {}
  /\ bDown = [w \in Workers |-> <<>>]
  /\ bUp = [w \in Workers |-> <<>>]
  /\ bWaiting = [w \in Workers |-> NotCalled]
  /\ bTargets = <<>>
  /\ bCollect = "idle"
  /\ bPromise = NotCalled
  /\ bListening = FALSE
  /\ bExecuted = [w \in Workers |-> 0]

\* ClusterProcessChild.broadcastEval in the caller: the listener is attached
\* and {code, nonce} sent to the parent as an EVAL request; a failed send
\* removes the listener and rejects.
bBroadcastEval ==
  /\ bPromise = NotCalled
  /\ bCaller \in bAlive
  /\ \E fails \in BOOLEAN :
       IF fails
         THEN /\ bPromise' = Rejected(SendError)
              /\ UNCHANGED <<bListening, bUp>>
         ELSE /\ bPromise' = Pending
              /\ bListening' = TRUE
              /\ bUp' = [bUp EXCEPT ![bCaller] =
                   Append(@, Envelope("EVAL", EvalData("broadcast", BNonce), TRUE, NoShard))]
  /\ UNCHANGED <<bCode, bCaller, bAlive, bDown, bWaiting, bTargets, bCollect,
                 bExecuted, procVars, packetVars, cacheVars, entVars>>

\* the live workers in the order of the partition plan
LiveInOrder(live) == SelectSeq([k \in 1..MaxWorkers |-> k], LAMBDA k : k \in live)

\* manager.broadcastEvalRaw has an outcome of every worker it asked
Collected(waiting, targets) ==
  \A k \in 1..Len(targets) : waiting[targets[k]].s = "resolved"

\* the list manager.broadcastEvalRaw resolves with
Results(waiting, targets) ==
  [k \in 1..Len(targets) |-> waiting[targets[k]].v]

\* The continuation of `await this.manager.broadcastEvalRaw(...)` in onMessage
\* of the caller's ClusterProcess, once every outcome is in:
\* sendIPC(EVAL, {...data, results}), which sends nothing when the caller's
\* child is gone.
AnswerCaller(waiting, live, down) ==
  IF bCollect = "collecting" /\ Collected(waiting, bTargets)
    THEN /\ bCollect' = "answered"
         /\ bDown' = IF bCaller \in live
              THEN [down EXCEPT ![bCaller] =
                      Append(@, Envelope("EVAL",
                        ResultsData(EvalData("broadcast", BNonce),
                                    Results(waiting, bTargets)),
                        FALSE, NoShard))]
              ELSE down
    ELSE /\ bCollect' = bCollect
         /\ bDown' = down

\* manager.broadcastEvalRaw(code, nonce): the manager sends the same evaluate
\* request to every live worker, in the order of the partition plan, by
\* eval(code, nonce) of each worker's ClusterProcess, which registers the
\* nonce and sends the request to its child; it waits for one outcome each.
broadcastEvalRaw(data) ==
  /\ bTargets' = LiveInOrder(bAlive)
  /\ bWaiting' = [k \in Workers |-> IF k \in bAlive THEN Pending ELSE bWaiting[k]]
  /\ bDown' = [k \in Workers |->
       IF k \in bAlive
         THEN Append(bDown[k], Envelope("EVAL", data, TRUE, NoShard))
         ELSE bDown[k]]

\* A 'message' event of worker w's child in its ClusterProcess. An EVAL request
\* makes onMessage await manager.broadcastEvalRaw(data.code, data.nonce). Any
\* other EVAL envelope with the nonce is taken by the listener of that
\* worker's eval(), which resolves its promise.
bParentOnMessage ==
  \E w \in bAlive :
    /\ bUp[w] # <<>>
    /\ LET m == Head(bUp[w]) IN
       IF m.request
         THEN /\ broadcastEvalRaw(m.data)
              /\ bCollect' = "collecting"
         ELSE LET waiting == [bWaiting EXCEPT ![w] = Settle(@, ListenerValue(m.data))] IN
              /\ bWaiting' = waiting
              /\ AnswerCaller(waiting, bAlive, bDown)
              /\ UNCHANGED bTargets
    /\ bUp' = [bUp EXCEPT ![w] = Tail(@)]
    /\ UNCHANGED <<bCode, bCaller, bAlive, bPromise, bListening, bExecuted,
                   procVars, packetVars, cacheVars, entVars>>

\* (data.results || []).map(([result, isError]) => ...) of the listener of
\* broadcastEval()
MapResults(results) ==
  [k \in DOMAIN results |->
     IF results[k].snd THEN ClusterIPCError(results[k].fst) ELSE results[k].fst]

\* mutant: the listener of broadcastEval() takes requests as well
BroadcastListenerTakesRequests(m) == m.op = "EVAL" /\ m.data.nonce = BNonce

\* Whether the 'message' listener of broadcastEval() acts on envelope m: not
\* on a request, and on an EVAL envelope of its nonce only.
BroadcastListenerTakes(m) ==
  ~m.request /\ m.op = "EVAL" /\ m.data.nonce = BNonce

\* the envelope as cluster._eval of worker w runs it
CodeIn(w, m) == [m EXCEPT !.data.code = bCode[w]]

\* A 'message' event in worker w's child: onMessage runs an EVAL request and
\* answers it; the listener of broadcastEval(), in the caller, skips requests
\* and settles the broadcast on an EVAL envelope with its nonce.
bChildOnMessage ==
  \E w \in bAlive :
    /\ bDown[w] # <<>>
    /\ LET m == Head(bDown[w]) IN
       /\ IF m.request
            THEN /\ bUp' = [bUp EXCEPT ![w] = @ \o ChildAnswer(CodeIn(w, m))]
                 /\ bExecuted' = [bExecuted EXCEPT ![w] = @ + 1]
            ELSE UNCHANGED <<bUp, bExecuted>>
       /\ IF w = bCaller /\ bListening /\ BroadcastListenerTakes(m)
            THEN /\ bListening' = FALSE
                 /\ bPromise' = Settle(bPromise,
                      IF m.data.error # Undef
                        THEN Rejected(ClusterIPCError(m.data.error))
                        ELSE Resolved(IF "results" \in DOMAIN m.data
                                        THEN MapResults(m.data.results)
                                        ELSE <<>>))
            ELSE UNCHANGED <<bListening, bPromise>>
    /\ bDown' = [bDown EXCEPT ![w] = Tail(@)]
    /\ UNCHANGED <<bCode, bCaller, bAlive, bWaiting, bTargets, bCollect,
                   procVars, packetVars, cacheVars, entVars>>

\* The child of worker w exits: what was in flight on its channel is lost, and
\* onExit of its ClusterProcess resolves the waiting eval with [Error, true].
bWorkerExits ==
  \E w \in bAlive, e \in Exits :
    LET waiting == [bWaiting EXCEPT ![w] =
                      Settle(@, Resolved(Pair(ExitError(e[1], e[2]), TRUE)))] IN
    /\ bAlive' = bAlive \ {w}
    /\ bUp' = [bUp EXCEPT ![w] = <<>>]
    /\ bWaiting' = waiting
    /\ AnswerCaller(waiting, bAlive \ {w}, [bDown EXCEPT ![w] = <<>>])
    /\ UNCHANGED <<bCode, bCaller, bTargets, bPromise, bListening, bExecuted,
                   procVars, packetVars, cacheVars, entVars>>

\* ==================================================== gateway dispatch
\* names of GatewayDispatchEvents that have a method in GatewayDispatchHandler
DispatchEvents == {"READY", "GUILD_MEMBER_ADD", "GUILD_INTEGRATIONS_UPDATE"}
\* event names packets carry: the handled ones, a name the dispatch handler has
\* no property for, the name of its method getHandler and of its getter client
EventNames == DispatchEvents \cup {"NOT_AN_EVENT", "getHandler", "client"}
\* the packets of the gateway: {op, t, d}
Packets ==
  {[op |-> "HEARTBEAT", t |-> "null", d |-> "null"]} \cup
  {[op |-> "DISPATCH", t |-> name, d |-> d] :
     name \in EventNames, d \in {"ok", "null"}}
\* names the options of the constructor list
OptionNames == {"ready", "guild_member_add", "GUILD_INTEGRATIONS_UPDATE"}
\* the lists of names an option is given as
OptionLists ==
  {{}, {"guild_member_add"}, {"ready", "GUILD_INTEGRATIONS_UPDATE"}, OptionNames}
\* String.prototype.toUpperCase on those names
ToUpperCase(v) ==
  CASE v = "ready" -> "READY"
    [] v = "guild_member_add" -> "GUILD_MEMBER_ADD"
    [] OTHER -> v
\* payloads: an object of the documented shape, or null
Payloads == {"ok", "null"}
\* the user id the payloads carry
UserId == 1

\* mutant: with a whitelist the listed disabledEvents stay disabled as well
ConstructorMergesLists(disabledOpt, whitelistOpt) ==
  LET listed == {ToUpperCase(v) : v \in disabledOpt}
      allowed == {ToUpperCase(v) : v \in whitelistOpt.names}
  IN (IF whitelistOpt.given THEN (DispatchEvents \ allowed) \cup listed
                            ELSE listed) \ {"READY"}

\* mutant: the constructor does not delete READY from the disabled set
ConstructorKeepsReady(disabledOpt, whitelistOpt) ==
  LET listed == {ToUpperCase(v) : v \in disabledOpt}
      allowed == {ToUpperCase(v) : v \in whitelistOpt.names}
  IN IF whitelistOpt.given THEN DispatchEvents \ allowed ELSE listed

\* The disabled set the constructor leaves for options.disabledEvents and
\* options.whitelistedEvents (absent: given = FALSE).
Constructor(disabledOpt, whitelistOpt) ==
  LET listed == {ToUpperCase(v) : v \in disabledOpt}
      allowed == {ToUpperCase(v) : v \in whitelistOpt.names}
  IN (IF whitelistOpt.given THEN DispatchEvents \ allowed ELSE listed) \ {"READY"}

PacketInit ==
  /\ \E disabledOpt \in OptionLists, given \in BOOLEAN, names \in OptionLists :
       /\ ~given => names = {}
       /\ handlerOptions = [disabledEvents |-> disabledOpt,
                            whitelistedEvents |-> [given |-> given, names |-> names]]
       /\ disabledEvents = Constructor(disabledOpt, [given |-> given, names |-> names])
  /\ rawListener \in BOOLEAN
  /\ subscriberThrows \in BOOLEAN
  /\ received = 0
  /\ emitted = <<>>
  /\ members = {}
  /\ readyWaiting = <<>>
  /\ handlerThrew = 0
  /\ propagated = 0
  /\ rejections = 0
  /\ packets = <<>>
  /\ handled = <<>>

\* the gateway part of the state where no gateway is modelled
PacketIdle ==
  /\ handlerOptions = [disabledEvents |-> {},
                       whitelistedEvents |-> [given |-> FALSE, names |-> {}]]
  /\ disabledEvents = {}
  /\ rawListener = FALSE
  /\ subscriberThrows = FALSE
  /\ received = 0
  /\ emitted = <<>>
  /\ members = {}
  /\ readyWaiting = <<>>
  /\ handlerThrew = 0
  /\ propagated = 0
  /\ rejections = 0
  /\ packets = <<>>
  /\ handled = <<>>

\* GatewayDispatchHandler.getHandler(name): (<any> this)[name], the property
\* of that name: a dispatch method, the method getHandler itself, the object
\* the getter client returns, or undefined.
getHandler(name) ==
  CASE name \in DispatchEvents -> name
    [] name = "getHandler" -> "getHandler"
    [] name = "client" -> "object"
    [] OTHER -> "undefined"

Note(event, n) == [event |-> event, packet |-> n]

\* What the call of handler `name` with payload d does before it returns, as
\* packet n: the member cache after it, the notifications it emits, whether
\* it threw, and whether it is suspended at an await. Reading a field of a
\* null payload throws a TypeError; a listener of the emitted event that
\* throws makes client.emit throw.
\* READY: client.reset() and the cache fills run, then the handler awaits.
\* GUILD_MEMBER_ADD: the member is merged or inserted, then the event emitted.
\* GUILD_INTEGRATIONS_UPDATE: the event is emitted.
HandlerCall(name, d, n) ==
  IF name = "READY"
    THEN IF d = "null"
           THEN [members |-> {}, notes |-> <<>>, threw |-> TRUE, waits |-> FALSE]
           ELSE [members |-> {}, notes |-> <<>>, threw |-> FALSE, waits |-> TRUE]
    ELSE IF d = "null"
      THEN [members |-> members, notes |-> <<>>, threw |-> TRUE, waits |-> FALSE]
      ELSE [members |-> IF name = "GUILD_MEMBER_ADD" THEN members \cup {UserId}
                                                     ELSE members,
            notes |-> <<Note(name, n)>>, threw |-> subscriberThrows,
            waits |-> FALSE]

\* mutant: RAW is emitted for the enabled events only
RawNotesFiltered(name, n) ==
  IF rawListener /\ name \notin disabledEvents THEN <<Note("RAW", n)>> ELSE <<>>

\* if (this.client.hasEventListener(ClientEvents.RAW)) emit(RAW, packet)
RawNotes(name, n) == IF rawListener THEN <<Note("RAW", n)>> ELSE <<>>

\* GatewayHandler.onPacket(packet) for the packet {op, t, d}. A packet of
\* another op returns at once. What getHandler returns is called when it is
\* truthy: a dispatch method runs as HandlerCall says; getHandler, called with
\* the payload, looks a property up and returns; the client object has no
\* call method, which throws a TypeError out of onPacket.
onPacket ==
  /\ received < MaxPackets
  /\ \E pkt \in Packets :
       LET n == received + 1
           name == pkt.t
           raw == RawNotes(name, n)
           h == HandlerCall(name, pkt.d, n)
           call == [packet |-> n, name |-> getHandler(name),
                    at |-> Len(emitted \o raw)]
       IN
       /\ received' = n
       /\ packets' = Append(packets, pkt)
       /\ IF pkt.op # "DISPATCH" \/ name \in disabledEvents
            THEN /\ emitted' = IF pkt.op = "DISPATCH" THEN emitted \o raw ELSE emitted
                 /\ UNCHANGED <<members, readyWaiting, handlerThrew, propagated,
                                rejections, handled>>
            ELSE IF getHandler(name) = "undefined"
              THEN /\ emitted' = emitted \o raw \o <<Note("UNKNOWN", n)>>
                   /\ UNCHANGED <<members, readyWaiting, handlerThrew, propagated,
                                  rejections, handled>>
            ELSE IF getHandler(name) = "object"
              THEN /\ emitted' = emitted \o raw
                   /\ propagated' = propagated + 1
                   /\ UNCHANGED <<members, readyWaiting, handlerThrew, rejections,
                                  handled>>
            ELSE IF getHandler(name) = "getHandler"
              THEN /\ emitted' = emitted \o raw
                   /\ handled' = Append(handled, call)
                   /\ UNCHANGED <<members, readyWaiting, handlerThrew, propagated,
                                  rejections>>
              ELSE /\ emitted' = emitted \o raw \o h.notes
                   /\ handled' = Append(handled, call)
                   /\ members' = h.members
                   /\ readyWaiting' = IF h.waits THEN Append(readyWaiting, <<n, "oauth2">>)
                                                 ELSE readyWaiting
                   /\ handlerThrew' = IF h.threw THEN handlerThrew + 1 ELSE handlerThrew
                   /\ propagated' = IF h.threw /\ name # "READY" THEN propagated + 1
                                                                  ELSE propagated
                   /\ rejections' = IF h.threw /\ name = "READY" THEN rejections + 1
                                                                  ELSE rejections
  /\ UNCHANGED <<handlerOptions, disabledEvents, rawListener, subscriberThrows, procVars, bcastVars, cacheVars, entVars>>

\* A READY handler resumes after an await: a failed fetch is emitted as WARN;
\* after rest.fetchOauth2Application() it awaits applications.fill(), after
\* that it emits GATEWAY_READY, and a listener that throws rejects the
\* handler's promise.
readyResumes ==
  \E i \in DOMAIN readyWaiting, fails \in BOOLEAN :
    LET n == readyWaiting[i][1]
        stage == readyWaiting[i][2]
        warn == IF fails THEN <<Note("WARN", n)>> ELSE <<>>
        rest == SelectSeq(readyWaiting, LAMBDA r : r # readyWaiting[i])
    IN
    /\ IF stage = "oauth2"
         THEN /\ emitted' = emitted \o warn
              /\ readyWaiting' = [readyWaiting EXCEPT ![i] = <<n, "applications">>]
              /\ UNCHANGED <<handlerThrew, rejections>>
         ELSE /\ emitted' = emitted \o warn \o <<Note("GATEWAY_READY", n)>>
              /\ readyWaiting' = rest
              /\ handlerThrew' = IF subscriberThrows THEN handlerThrew + 1 ELSE handlerThrew
              /\ rejections' = IF subscriberThrows THEN rejections + 1 ELSE rejections
    /\ UNCHANGED <<handlerOptions, disabledEvents, rawListener, subscriberThrows, received, members,
                   propagated, packets, handled, procVars, bcastVars, cacheVars, entVars>>

\* ======================================================= cache handlers
\* ids the dispatch payloads carry
GuildIds == {"g1", "g2"}
UserIds == {"u1", "u2"}
\* role ids other than a guild's default role, whose id is the guild's own
RoleIds == {"r1", "r2"}
\* data['member_count'] of the guilds of the initial cache
SomeCount == 5
\* an entry of client.members: `roles` are the keys of member._roles (the
\* guild's own id, its default role, among them), empty when _roles is undefined
NoMember == [cached |-> FALSE, roles |-> {}]
\* mutant: a roles list is stored without the guild's default role
MemberWithoutDefault(g, roles) == [cached |-> TRUE, roles |-> roles]

\* a member merged with a roles list: a non-empty list sets _roles to the
\* default role (the guild's id) and the listed ids, an empty one leaves
\* _roles undefined
Member(g, roles) ==
  [cached |-> TRUE, roles |-> IF roles = {} THEN {} ELSE roles \cup {g}]
\* the keys of member.roles: _roles, or a collection holding the default role
MemberRoles(m, g) == IF m.roles # {} THEN m.roles ELSE {g}
\* client.members.get(guildId): the users with a member under the guild's id
GuildMembers(mem, g) == {u \in UserIds : mem[g][u].cached}
\* guild.members.has(userId): Guild.members is the member store's collection
\* for the guild
GuildHasMember(mem, g, u) == u \in GuildMembers(mem, g)
\* a dispatch event {t, d}: the fields of d the handlers read; r holds the
\* role ids of the payload, or for READY the ids of the entities it names
Event(t, g, u, r, flag) == [t |-> t, g |-> g, u |-> u, r |-> r, flag |-> flag]
NoEvent == Event("none", "", "", {}, FALSE)

\* the caches and the member-chunk sets of a new client
CacheIdle ==
  /\ cGuildsEnabled = TRUE
  /\ cMessageType = "CHANNEL"
  /\ loadAll = FALSE
  /\ cGuilds = {}
  /\ cMemberCount = [g \in GuildIds |-> 0]
  /\ cGuildRoles = [g \in GuildIds |-> {}]
  /\ cMembers = [g \in GuildIds |-> [u \in UserIds |-> NoMember]]
  /\ cUsers = {}
  /\ cVoice = {}
  /\ cChannels = {}
  /\ cMessages = {}
  /\ cDms = {}
  /\ cRelations = {}
  /\ mcLeft = {}
  /\ mcSending = {}
  /\ mcDone = {}
  /\ mcTimer = FALSE
  /\ mcRequests = <<>>
  /\ cEvents = 0
  /\ cLast = NoEvent

\* mutant: a member add leaves the count alone
MemberAddedUncounted(count, g) == count

\* `guild.memberCount++` of a cached guild
MemberAdded(count, g) ==
  IF g \in cGuilds THEN [count EXCEPT ![g] = @ + 1] ELSE count

\* GUILD_MEMBER_ADD {guild_id, user, roles}: the member is merged or built and
\* inserted (Member.mergeValue stores the roles and inserts or merges the user
\* into client.users); a cached guild's memberCount is incremented.
GUILD_MEMBER_ADD ==
  /\ cEvents < MaxEvents
  /\ \E g \in GuildIds, u \in UserIds, roles \in {{}, RoleIds} :
       /\ cMembers' = [cMembers EXCEPT ![g][u] = Member(g, roles)]
       /\ cUsers' = cUsers \cup {u}
       /\ cMemberCount' = MemberAdded(cMemberCount, g)
       /\ cLast' = Event("GUILD_MEMBER_ADD", g, u, roles, FALSE)
  /\ cEvents' = cEvents + 1
  /\ UNCHANGED <<cGuildsEnabled, cMessageType, loadAll, cGuilds, cGuildRoles,
                 cVoice, cChannels, cMessages, cDms, cRelations, mcLeft,
                 mcSending, mcDone, mcTimer, mcRequests, procVars, bcastVars,
                 packetVars, entVars>>

\* mutant: the user is evicted whenever its member is removed
KeepsUserNever(mem, u) == FALSE

\* The sweeps of GUILD_MEMBER_REMOVE over the caches as they are after the
\* member was deleted: a cached guild that has the user as a member, a cached
\* DM channel with the user as recipient, or a relationship keeps the user.
KeepsUser(mem, u) ==
  \/ \E g \in cGuilds : GuildHasMember(mem, g, u)
  \/ u \in cDms
  \/ u \in cRelations

\* GUILD_MEMBER_REMOVE {guild_id, user}: a cached guild's memberCount is
\* decremented, the member and its voice state are deleted, and the user is
\* deleted from client.users when nothing keeps it.
GUILD_MEMBER_REMOVE ==
  /\ cEvents < MaxEvents
  /\ \E g \in GuildIds, u \in UserIds :
       LET mem == [cMembers EXCEPT ![g][u] = NoMember] IN
       /\ cMembers' = mem
       /\ cVoice' = cVoice \ {<<g, u>>}
       /\ cMemberCount' = IF g \in cGuilds
            THEN [cMemberCount EXCEPT ![g] = @ - 1] ELSE cMemberCount
       /\ cUsers' = IF KeepsUser(mem, u) THEN cUsers ELSE cUsers \ {u}
       /\ cLast' = Event("GUILD_MEMBER_REMOVE", g, u, {}, FALSE)
  /\ cEvents' = cEvents + 1
  /\ UNCHANGED <<cGuildsEnabled, cMessageType, loadAll, cGuilds, cGuildRoles,
                 cChannels, cMessages, cDms, cRelations, mcLeft, mcSending,
                 mcDone, mcTimer, mcRequests, procVars, bcastVars, packetVars, entVars>>

\* mutant: the role is deleted from the guild only
DropRoleNowhere(ms, r) == ms

\* member.roles.delete(roleId) for every member client.members holds under
\* the guild
DropRole(ms, r) ==
  [u \in UserIds |-> [ms[u] EXCEPT !.roles = @ \ {r}]]

\* GUILD_ROLE_DELETE {guild_id, role_id}
GUILD_ROLE_DELETE ==
  /\ cEvents < MaxEvents
  /\ \E g \in GuildIds, r \in RoleIds :
       /\ cGuildRoles' = IF g \in cGuilds
            THEN [cGuildRoles EXCEPT ![g] = @ \ {r}] ELSE cGuildRoles
       /\ cMembers' = [cMembers EXCEPT ![g] = DropRole(@, r)]
       /\ cLast' = Event("GUILD_ROLE_DELETE", g, "", {r}, FALSE)
  /\ cEvents' = cEvents + 1
  /\ UNCHANGED <<cGuildsEnabled, cMessageType, loadAll, cGuilds, cMemberCount,
                 cUsers, cVoice, cChannels, cMessages, cDms, cRelations, mcLeft,
                 mcSending, mcDone, mcTimer, mcRequests, procVars, bcastVars,
                 packetVars, entVars>>

\* mutant: a deleted guild stays queued
SendingKeeps(sending, g) == sending

\* `memberChunks.sending.delete(guildId)` of GUILD_DELETE
SendingForgets(sending, g) == sending \ {g}

\* `!isNew || !this.client.guilds.enabled`: whether GUILD_DELETE sweeps the
\* stores of the guild; isNew is that client.guilds did not have the guild
SweepsGuild(g) == g \in cGuilds \/ ~cGuildsEnabled

\* GUILD_DELETE {id, unavailable}: the guild leaves memberChunks.done and
\* .sending; it is merged, or built and inserted when it was not cached; its
\* stores are swept when SweepsGuild: the cached channels of the guild and the
\* messages kept under them, the members, the messages kept under the guild
\* id, the voice states and, in per-user message mode, the messages of the
\* guild; the guild is deleted from client.guilds unless it is unavailable.
GUILD_DELETE ==
  /\ cEvents < MaxEvents
  /\ \E g \in GuildIds, unavailable \in BOOLEAN :
       /\ mcDone' = mcDone \ {g}
       /\ mcSending' = SendingForgets(mcSending, g)
       /\ IF SweepsGuild(g)
            THEN /\ cChannels' = cChannels \ {g}
                 /\ cMessages' =
                      IF cMessageType = "CHANNEL" /\ g \notin cChannels
                        THEN cMessages ELSE cMessages \ {g}
                 /\ cMembers' = [cMembers EXCEPT ![g] = [u \in UserIds |-> NoMember]]
                 /\ cVoice' = {v \in cVoice : v[1] # g}
            ELSE UNCHANGED <<cChannels, cMessages, cMembers, cVoice>>
       /\ IF unavailable /\ cGuildsEnabled
            THEN /\ cGuilds' = cGuilds \cup {g}
                 /\ UNCHANGED <<cMemberCount, cGuildRoles>>
            ELSE /\ cGuilds' = cGuilds \ {g}
                 /\ cMemberCount' = [cMemberCount EXCEPT ![g] = 0]
                 /\ cGuildRoles' = [cGuildRoles EXCEPT ![g] = {}]
       /\ cLast' = Event("GUILD_DELETE", g, "", {}, unavailable)
  /\ cEvents' = cEvents + 1
  /\ UNCHANGED <<cGuildsEnabled, cMessageType, loadAll, cUsers, cDms, cRelations,
                 mcLeft, mcTimer, mcRequests, procVars, bcastVars, packetVars, entVars>>

\* ------------------------------------------------ member-chunk coordinator
\* what a READY payload says of a guild: not listed, an unavailable stub, or
\* an available guild of one member with its member list empty or complete
GuildStates == {"absent", "unavailable", "partial", "full"}
\* raw.member_count of an available guild of READY and GUILD_CREATE
CountOf(state) == IF state \in {"partial", "full"} THEN 1 ELSE 0
\* the members a guild payload lists
ListedIn(state) == IF state = "full" THEN {"u1"} ELSE {}

\* `guild.members.length !== guild.memberCount`
NeedsChunks(mem, g, count) == Cardinality(GuildMembers(mem, g)) # count

\* the members of a guild payload are merged into the member store
MergeMembers(row, listed) ==
  [u \in UserIds |-> IF u \in listed /\ ~row[u].cached THEN [NoMember EXCEPT !.cached = TRUE]
                   ELSE row[u]]

\* mutant: the timer requests the queued guilds even when there are none
RequestGuildMembersAlways(requests, guildIds) == Append(requests, guildIds)

\* mutant: the queued guilds are requested twice
RequestGuildMembersTwice(requests, guildIds) ==
  Append(Append(requests, guildIds), guildIds)

\* `if (guildIds.length) gateway.requestGuildMembers(guildIds, ...)`: one call
\* naming the ids, none when there are no ids
RequestGuildMembers(requests, guildIds) ==
  IF guildIds = {} THEN requests ELSE Append(requests, guildIds)

\* mutant: the reset keeps what a store holds
clientResetKeeps(store, empty) == store

\* client.reset(): a store is cleared
clientReset(store, empty) == empty

\* READY {guilds, private_channels, relationships}: client.reset() clears
\* every store and the client's own user is inserted; with the guild store
\* enabled every listed guild is merged or built and inserted, and when all
\* members are to be loaded an unavailable guild is added to memberChunks.left
\* while an available one whose member list is incomplete is added to .done
\* and requested at once; the private channels and the relationships of the
\* payload are merged or inserted.
READY ==
  /\ cEvents < MaxEvents
  /\ \E gs \in [GuildIds -> GuildStates],
        priv \in {<<{}, {}>>, <<{"u2"}, {}>>, <<{}, {"u2"}>>} :
       LET listed == IF cGuildsEnabled
                       THEN {g \in GuildIds : gs[g] # "absent"} ELSE {}
           none == [g \in GuildIds |-> [u \in UserIds |-> NoMember]]
           mem == [g \in GuildIds |->
                    MergeMembers(clientReset(cMembers, none)[g],
                                 IF g \in listed THEN ListedIn(gs[g]) ELSE {})]
           count == [g \in GuildIds |->
                      IF g \in listed THEN CountOf(gs[g])
                      ELSE clientReset(cMemberCount, [h \in GuildIds |-> 0])[g]]
           requestChunksNow ==
             {g \in listed : /\ loadAll
                             /\ gs[g] # "unavailable"
                             /\ NeedsChunks(mem, g, count[g])}
       IN
       /\ cGuilds' = clientReset(cGuilds, {}) \cup listed
       /\ cMemberCount' = count
       /\ cGuildRoles' = clientReset(cGuildRoles, [g \in GuildIds |-> {}])
       /\ cMembers' = mem
       /\ cUsers' = clientReset(cUsers, {}) \cup {"me"} \cup priv[1] \cup priv[2]
            \cup {u \in UserIds : \E g \in listed : u \in ListedIn(gs[g])}
       /\ cDms' = clientReset(cDms, {}) \cup priv[1]
       /\ cRelations' = clientReset(cRelations, {}) \cup priv[2]
       /\ mcLeft' = IF loadAll
            THEN mcLeft \cup {g \in listed : gs[g] = "unavailable"} ELSE mcLeft
       /\ mcDone' = mcDone \cup requestChunksNow
       /\ mcRequests' = RequestGuildMembers(mcRequests, requestChunksNow)
       /\ cLast' = Event("READY", "", "",
                         listed \cup priv[1] \cup priv[2]
                           \cup UNION {ListedIn(gs[g]) : g \in listed}, FALSE)
  /\ cVoice' = clientReset(cVoice, {})
  /\ cChannels' = clientReset(cChannels, {})
  /\ cMessages' = clientReset(cMessages, {})
  /\ cEvents' = cEvents + 1
  /\ UNCHANGED <<cGuildsEnabled, cMessageType, loadAll, mcSending, mcTimer,
                 procVars, bcastVars, packetVars, entVars>>

\* mutant: a guild is queued without the timer being started
TimerStartedNever(pending, queued) == pending

\* memberChunks.timer.start(delay, ...) next to sending.add(guild.id): whether
\* the timer is pending after a GUILD_CREATE that queued its guild or did not
TimerStarted(pending, queued) == pending \/ queued

\* GUILD_CREATE {id, member_count, members}: the guild is merged or built and
\* inserted; when all members are to be loaded, a guild not in .done is added
\* to .left, and a guild in .left is queued in .sending with the timer started
\* if its member list is incomplete, then added to .done and taken out of .left.
GUILD_CREATE ==
  /\ cEvents < MaxEvents
  /\ \E g \in GuildIds, state \in {"partial", "full"} :
       LET mem == [cMembers EXCEPT ![g] = MergeMembers(@, ListedIn(state))]
           left == IF g \notin mcDone THEN mcLeft \cup {g} ELSE mcLeft
           queued == g \in left /\ NeedsChunks(mem, g, CountOf(state))
       IN
       /\ cGuilds' = IF cGuildsEnabled THEN cGuilds \cup {g} ELSE cGuilds
       /\ cMemberCount' = IF cGuildsEnabled
            THEN [cMemberCount EXCEPT ![g] = CountOf(state)] ELSE cMemberCount
       /\ cMembers' = mem
       /\ cUsers' = cUsers \cup ListedIn(state)
       /\ IF loadAll
            THEN /\ mcSending' = IF queued THEN mcSending \cup {g} ELSE mcSending
                 /\ mcTimer' = TimerStarted(mcTimer, queued)
                 /\ mcDone' = IF g \in left THEN mcDone \cup {g} ELSE mcDone
                 /\ mcLeft' = left \ {g}
            ELSE UNCHANGED <<mcSending, mcTimer, mcDone, mcLeft>>
       /\ cLast' = Event("GUILD_CREATE", g, "", {}, FALSE)
  /\ cEvents' = cEvents + 1
  /\ UNCHANGED <<cGuildsEnabled, cMessageType, loadAll, cGuildRoles, cVoice,
                 cChannels, cMessages, cDms, cRelations, mcRequests, procVars,
                 bcastVars, packetVars, entVars>>

\* the callback of memberChunks.timer: the queued guilds are requested in one
\* call and .sending is cleared
chunkTimerFires ==
  /\ mcTimer
  /\ mcTimer' = FALSE
  /\ mcRequests' = RequestGuildMembers(mcRequests, mcSending)
  /\ mcSending' = {}
  /\ UNCHANGED <<cGuildsEnabled, cMessageType, loadAll, cGuilds, cMemberCount,
                 cGuildRoles, cMembers, cUsers, cVoice, cChannels, cMessages,
                 cDms, cRelations, mcLeft, mcDone, cEvents, cLast, procVars,
                 bcastVars, packetVars, entVars>>

\* the coordinator of a new client, loadAllMembers set or not
ChunksInit ==
  /\ cGuildsEnabled \in BOOLEAN
  /\ cMessageType = "CHANNEL"
  /\ loadAll \in BOOLEAN
  /\ cGuilds = {}
  /\ cMemberCount = [g \in GuildIds |-> 0]
  /\ cGuildRoles = [g \in GuildIds |-> {}]
  /\ cMembers = [g \in GuildIds |-> [u \in UserIds |-> NoMember]]
  /\ cUsers = {}
  /\ cVoice = {}
  /\ cChannels = {}
  /\ cMessages = {}
  /\ cDms = {}
  /\ cRelations = {}
  /\ mcLeft = {}
  /\ mcSending = {}
  /\ mcDone = {}
  /\ mcTimer = FALSE
  /\ mcRequests = <<>>
  /\ cEvents = 0
  /\ cLast = NoEvent

\* The caches SpecCache starts from: some guilds cached with their roles and
\* member counts, members cached under the cached guilds, and a user cached
\* for every member, DM recipient and relationship.
CacheInit ==
  /\ cGuildsEnabled = TRUE
  /\ cMessageType = "CHANNEL"
  /\ loadAll = FALSE
  /\ cGuilds \in SUBSET GuildIds
  /\ cMemberCount = [g \in GuildIds |-> IF g \in cGuilds THEN SomeCount ELSE 0]
  /\ cGuildRoles = [g \in GuildIds |-> IF g \in cGuilds THEN RoleIds ELSE {}]
  /\ cMembers \in [GuildIds -> [UserIds ->
                     {NoMember} \cup {Member(g, RoleIds) : g \in GuildIds}]]
  /\ \A g \in GuildIds, u \in UserIds :
       cMembers[g][u] \in {NoMember, Member(g, RoleIds)}
  /\ \A g \in GuildIds \ cGuilds : GuildMembers(cMembers, g) = {}
  /\ \E keeps \in {<<{}, {}>>, <<{"u1"}, {}>>, <<{}, {"u1"}>>} :
       /\ cDms = keeps[1]
       /\ cRelations = keeps[2]
  /\ cUsers = cDms \cup cRelations
       \cup {u \in UserIds : \E g \in GuildIds : cMembers[g][u].cached}
  /\ cVoice = {}
  /\ cChannels = {}
  /\ cMessages = {}
  /\ mcLeft = {}
  /\ mcSending = {}
  /\ mcDone = {}
  /\ mcTimer = FALSE
  /\ mcRequests = <<>>
  /\ cEvents = 0
  /\ cLast = NoEvent

\* The caches SpecSweep starts from: either message-cache mode, the guild
\* store enabled or not, and for guild g1 a cached channel, messages, a voice
\* state and a member, each present or not.
SweepInit ==
  /\ cGuildsEnabled \in BOOLEAN
  /\ cMessageType \in {"CHANNEL", "GUILD", "USER"}
  /\ loadAll = FALSE
  /\ cGuilds \in (IF cGuildsEnabled THEN {{}, {"g1"}} ELSE {{}})
  /\ cMemberCount = [g \in GuildIds |-> IF g \in cGuilds THEN SomeCount ELSE 0]
  /\ cGuildRoles = [g \in GuildIds |-> IF g \in cGuilds THEN RoleIds ELSE {}]
  /\ \E m \in {NoMember, Member("g1", {})} :
       cMembers = [g \in GuildIds |-> [u \in UserIds |->
                    IF g = "g1" /\ u = "u1" THEN m ELSE NoMember]]
  /\ cUsers = {u \in UserIds : \E g \in GuildIds : cMembers[g][u].cached}
  /\ cVoice \in {{}, {<<"g1", "u1">>}}
  /\ cChannels \in {{}, {"g1"}}
  /\ cMessages \in {{}, {"g1"}}
  /\ cDms = {}
  /\ cRelations = {}
  /\ mcLeft = {}
  /\ mcSending = {}
  /\ mcDone = {}
  /\ mcTimer = FALSE
  /\ mcRequests = <<>>
  /\ cEvents = 0
  /\ cLast = NoEvent

\* ===================================================== entity updates
\* the emoji ids of the reactions
Emojis == {"e1", "e2", "e3"}
\* a member of the guild: `keys` are the role ids _roles has besides the
\* guild's own, `refs` the Role object each refers to, 0 for null
NoEntMember == [cached |-> FALSE, boost |-> FALSE, keys |-> {},
                refs |-> [r \in RoleIds |-> 0]]
\* what a handler emitted: the event, the user or role or emoji it is about,
\* whether the entity was cached before, whether differences were emitted,
\* and the value before the event of the field the payload changes
Emitted(t, k, was, diff, old) ==
  [t |-> t, k |-> k, was |-> was, diff |-> diff, old |-> old]

\* ========================================================= Member.merge
\* keysMember, as far as modelled, and a key that is not in it
KeysMember == {"guild_id", "joined_at", "nick", "roles"}
PayloadKeys == KeysMember \cup {"extra"}
\* an ISO timestamp, and what new Date(value).getTime() makes of it
DateString(ms) == [t |-> "date", ms |-> ms]
GetTime(value) == value.ms
\* The payloads merged into the member of guild g1: `has` are the keys whose
\* value is not undefined; the other fields hold a placeholder. A payload that
\* carries guild_id carries the member's guild.
MergePayloads ==
  {[has |-> has,
    guild_id |-> "g1",
    joined_at |-> IF "joined_at" \in has THEN j ELSE JSNull,
    nick |-> IF "nick" \in has THEN n ELSE JSNull,
    roles |-> IF "roles" \in has THEN r ELSE {},
    extra |-> Value] :
     has \in SUBSET PayloadKeys, j \in {JSNull, DateString(7)},
     n \in {JSNull, Value}, r \in {{}, {"r1"}, {"r1", "r2"}}}

\* mutant: an undefined value is merged like any other
mergeValueOfUndefined(m, key, data) ==
  CASE key = "joined_at" ->
         [m EXCEPT !.joinedAtUnix = IF data[key] # JSNull THEN GetTime(data[key]) ELSE 0]
    [] key = "roles" -> [m EXCEPT !.roles = Member(m.guildId, data[key]).roles]
    [] key = "guild_id" -> [m EXCEPT !.guildId = data[key]]
    [] key = "nick" -> [m EXCEPT !.nick = data[key]]

\* Member.mergeValue(key, data[key]): nothing for undefined; JOINED_AT is
\* stored as a time, 0 for a falsy value; ROLES replaces _roles; every other
\* key goes to super.mergeValue, which assigns the property of the key.
mergeValue(m, key, data) ==
  IF key \notin data.has THEN m
  ELSE CASE key = "joined_at" ->
              [m EXCEPT !.joinedAtUnix =
                 IF data[key] # JSNull THEN GetTime(data[key]) ELSE 0]
         [] key = "roles" -> [m EXCEPT !.roles = Member(m.guildId, data[key]).roles]
         [] key = "guild_id" -> [m EXCEPT !.guildId = data[key]]
         [] key = "nick" -> [m EXCEPT !.nick = data[key]]

\* BaseStructure.merge(data): mergeValue for the keys of _keysMerge (guild_id)
\* first, then for the other keys of _keys; a key of the payload that is not
\* in _keys is never looked at.
merge(m, data) ==
  mergeValue(mergeValue(mergeValue(mergeValue(m, "guild_id", data),
                                   "joined_at", data), "nick", data), "roles", data)

\* the fields of a Member before its constructor merges
BlankMember ==
  [guildId |-> "", nick |-> JSNull, joinedAtUnix |-> 0, roles |-> {},
   extra |-> Undef]

\* nothing supplied yet: a payload without keys
NoneSupplied ==
  [has |-> {}, guild_id |-> "g1", joined_at |-> JSNull, nick |-> JSNull,
   roles |-> {}, extra |-> Value]
\* what `supplied` becomes when data is merged: the keys supplied so far and
\* for each the value supplied last
Supplies(supplied, data) ==
  [k \in PayloadKeys \cup {"has"} |->
     IF k = "has" THEN supplied.has \cup data.has
     ELSE IF k \in data.has THEN data[k] ELSE supplied[k]]

\* new Member(client, data) for a payload that carries guild_id
MergeInit ==
  /\ \E data \in MergePayloads :
       /\ "guild_id" \in data.has
       /\ mMember = merge(BlankMember, data)
       /\ mSupplied = Supplies(NoneSupplied, data)
       /\ mLast = data
  /\ mMerges = 0

\* the member part of the state where no member is merged
MergeIdle ==
  /\ mMember = BlankMember
  /\ mSupplied = NoneSupplied
  /\ mMerges = 0
  /\ mLast = NoneSupplied

\* member.merge(data)
Member_merge ==
  /\ mMerges < MaxMerges
  /\ \E data \in MergePayloads :
       /\ mMember' = merge(mMember, data)
       /\ mSupplied' = Supplies(mSupplied, data)
       /\ mLast' = data
  /\ mMerges' = mMerges + 1
  /\ UNCHANGED <<eGuild, ePremium, eRoles, eObjects, eMembers, eVoice,
                 eListening, rCached, rAlloc, rCounts, rHas, eEvents, eLast,
                 procVars, bcastVars, packetVars, cacheVars>>

\* the entity stores of a new client
EntityIdle ==
  /\ eGuild = FALSE
  /\ ePremium = 0
  /\ eRoles = [r \in RoleIds |-> 0]
  /\ eObjects = 0
  /\ eMembers = [u \in UserIds |-> NoEntMember]
  /\ eVoice = [u \in UserIds |-> "none"]
  /\ eListening = FALSE
  /\ rCached = FALSE
  /\ rAlloc = FALSE
  /\ rCounts = [e \in Emojis |-> 0]
  /\ rHas = {}
  /\ eEvents = 0
  /\ eLast = Emitted("none", "", FALSE, FALSE, "")
EntIdle == EntityIdle /\ MergeIdle

\* Member.mergeValue ROLES: a non-empty list sets the keys and looks each role
\* up in guild.roles, null when the guild or the role is not cached; an empty
\* list leaves _roles undefined
MergeRoles(m, roles) ==
  [m EXCEPT !.keys = roles,
            !.refs = [r \in RoleIds |-> IF r \in roles /\ eGuild THEN eRoles[r] ELSE 0]]

\* `!!member.premiumSinceUnix !== !!data['premium_since']` for a cached member
BoostChanges(m, premium) == m.cached /\ (m.boost # (premium = "date"))

\* GUILD_MEMBER_UPDATE {user, premium_since, roles}: for a cached member the
\* differences are taken if a listener is registered, the premium
\* subscription count of a cached guild is moved when BoostChanges, and the
\* payload is merged (Member.mergeValue leaves premiumSinceUnix alone when the
\* payload has no premium_since); otherwise the member is built and inserted.
GUILD_MEMBER_UPDATE ==
  /\ eEvents < MaxEvents
  /\ \E u \in UserIds, premium \in {"omitted", "null", "date"},
        roles \in {{}, {"r2"}, RoleIds} :
       LET m == eMembers[u] IN
       /\ ePremium' = IF BoostChanges(m, premium) /\ eGuild
            THEN (IF premium = "date" THEN ePremium + 1 ELSE ePremium - 1)
            ELSE ePremium
       /\ eMembers' = [eMembers EXCEPT ![u] =
            MergeRoles([m EXCEPT !.cached = TRUE,
                                 !.boost = IF premium = "omitted" THEN @
                                           ELSE premium = "date"], roles)]
       /\ eLast' = Emitted("GUILD_MEMBER_UPDATE", u, m.cached,
                           m.cached /\ eListening,
                           IF m.boost THEN "set" ELSE "unset")
  /\ eEvents' = eEvents + 1
  /\ UNCHANGED <<eGuild, eRoles, eObjects, eVoice, eListening, rCached, rAlloc,
                 rCounts, rHas, procVars, bcastVars, packetVars, cacheVars, mergeVars>>

\* the role of a role event: the object guild.roles has, merged, or a new Role
RoleOf(r) == IF eGuild /\ eRoles[r] # 0 THEN eRoles[r] ELSE eObjects + 1

\* GUILD_ROLE_CREATE {role}: the role is merged, or built and set in the
\* roles of a cached guild; every member of the guild whose roles have the
\* key is given the role.
GUILD_ROLE_CREATE ==
  /\ eEvents < MaxEvents
  /\ \E r \in RoleIds :
       /\ eRoles' = IF eGuild THEN [eRoles EXCEPT ![r] = RoleOf(r)] ELSE eRoles
       /\ eObjects' = IF RoleOf(r) > eObjects THEN RoleOf(r) ELSE eObjects
       /\ eMembers' = [u \in UserIds |->
            IF eMembers[u].cached /\ r \in eMembers[u].keys
              THEN [eMembers[u] EXCEPT !.refs[r] = RoleOf(r)] ELSE eMembers[u]]
       /\ eLast' = Emitted("GUILD_ROLE_CREATE", r, eGuild /\ eRoles[r] # 0, FALSE, "")
  /\ eEvents' = eEvents + 1
  /\ UNCHANGED <<eGuild, ePremium, eVoice, eListening, rCached, rAlloc, rCounts,
                 rHas, procVars, bcastVars, packetVars, cacheVars, mergeVars>>

\* GUILD_ROLE_UPDATE {role}: the role is merged, after its differences are
\* taken if a listener is registered, or built and set in the roles of a
\* cached guild; the members are not visited.
GUILD_ROLE_UPDATE ==
  /\ eEvents < MaxEvents
  /\ \E r \in RoleIds :
       /\ eRoles' = IF eGuild THEN [eRoles EXCEPT ![r] = RoleOf(r)] ELSE eRoles
       /\ eObjects' = IF RoleOf(r) > eObjects THEN RoleOf(r) ELSE eObjects
       /\ eLast' = Emitted("GUILD_ROLE_UPDATE", r, eGuild /\ eRoles[r] # 0,
                           eGuild /\ eRoles[r] # 0 /\ eListening, "")
  /\ eEvents' = eEvents + 1
  /\ UNCHANGED <<eGuild, ePremium, eMembers, eVoice, eListening, rCached, rAlloc,
                 rCounts, rHas, procVars, bcastVars, packetVars, cacheVars, mergeVars>>

\* VOICE_STATE_UPDATE {user_id, channel_id}: a cached voice state is merged
\* and, when the payload has no channel, deleted; otherwise the voice state
\* is built from the payload and inserted.
VOICE_STATE_UPDATE ==
  /\ eEvents < MaxEvents
  /\ \E u \in UserIds, channel \in {"null", "chan"} :
       /\ eVoice' = [eVoice EXCEPT ![u] =
            IF @ # "none" /\ channel = "null" THEN "none" ELSE channel]
       /\ eLast' = Emitted("VOICE_STATE_UPDATE", u, eVoice[u] # "none",
                           eVoice[u] # "none" /\ eListening, eVoice[u])
  /\ eEvents' = eEvents + 1
  /\ UNCHANGED <<eGuild, ePremium, eRoles, eObjects, eMembers, eListening,
                 rCached, rAlloc, rCounts, rHas, procVars, bcastVars,
                 packetVars, cacheVars, mergeVars>>

\* The stores SpecEntity starts from: the guild cached or not, with role r1
\* stored and r2 not; member u1 absent, cached without roles, or cached
\* boosting with role r1; a voice state of u1 or none; listeners or none.
EntInit ==
  /\ MergeIdle
  /\ eGuild \in BOOLEAN
  /\ eRoles = [r \in RoleIds |-> IF eGuild /\ r = "r1" THEN 1 ELSE 0]
  /\ eObjects = IF eGuild THEN 1 ELSE 0
  /\ \E m \in {NoEntMember,
               [NoEntMember EXCEPT !.cached = TRUE],
               [NoEntMember EXCEPT !.cached = TRUE, !.boost = TRUE,
                                   !.keys = {"r1"}, !.refs["r1"] = eRoles["r1"]]} :
       /\ eMembers = [u \in UserIds |-> IF u = "u1" THEN m ELSE NoEntMember]
       /\ ePremium = IF m.boost /\ eGuild THEN 1 ELSE 0
  /\ eVoice \in {[u \in UserIds |-> "none"],
                 [u \in UserIds |-> IF u = "u1" THEN "chan" ELSE "none"]}
  /\ eListening \in BOOLEAN
  /\ rCached = FALSE
  /\ rAlloc = FALSE
  /\ rCounts = [e \in Emojis |-> 0]
  /\ rHas = {}
  /\ eEvents = 0
  /\ eLast = Emitted("none", "", FALSE, FALSE, "")

\* ------------------------------------------------------------ reactions
\* MESSAGE_REACTION_ADD {message_id, emoji}: the reaction of a cached message
\* is looked up, or built and set in message._reactions, which is allocated
\* if the message had none; its count is raised by 1. For a message that is
\* not cached the reaction is built for the notification only.
MESSAGE_REACTION_ADD ==
  /\ eEvents < MaxEvents
  /\ \E e \in Emojis :
       /\ IF rCached
            THEN /\ rAlloc' = TRUE
                 /\ rHas' = rHas \cup {e}
                 /\ rCounts' = [rCounts EXCEPT ![e] = @ + 1]
            ELSE UNCHANGED <<rAlloc, rHas, rCounts>>
       /\ eLast' = Emitted("MESSAGE_REACTION_ADD", e, rCached /\ e \in rHas, FALSE, "")
  /\ eEvents' = eEvents + 1
  /\ UNCHANGED <<eGuild, ePremium, eRoles, eObjects, eMembers, eVoice,
                 eListening, rCached, procVars, bcastVars, packetVars, cacheVars, mergeVars>>

\* mutant: the collection stays allocated when its last reaction is deleted
StaysAllocatedAlways(has) == TRUE

\* `if (!message._reactions.length) message._reactions = undefined`
StaysAllocated(has) == has # {}

\* MESSAGE_REACTION_REMOVE {message_id, emoji}: the cached reaction of a cached
\* message is merged with count Math.min(count - 1, 0) and, its count then
\* being <= 0, deleted from message._reactions, which is set to undefined
\* when it is left empty.
MESSAGE_REACTION_REMOVE ==
  /\ eEvents < MaxEvents
  /\ \E e \in Emojis :
       LET count == IF rCounts[e] - 1 < 0 THEN rCounts[e] - 1 ELSE 0
           has == IF count <= 0 THEN rHas \ {e} ELSE rHas
       IN
       /\ IF rCached /\ rAlloc /\ e \in rHas
            THEN /\ rHas' = has
                 /\ rCounts' = [rCounts EXCEPT ![e] = IF e \in has THEN count ELSE 0]
                 /\ rAlloc' = StaysAllocated(has)
            ELSE UNCHANGED <<rAlloc, rHas, rCounts>>
       /\ eLast' = Emitted("MESSAGE_REACTION_REMOVE", e, rCached /\ e \in rHas, FALSE, "")
  /\ eEvents' = eEvents + 1
  /\ UNCHANGED <<eGuild, ePremium, eRoles, eObjects, eMembers, eVoice,
                 eListening, rCached, procVars, bcastVars, packetVars, cacheVars, mergeVars>>

\* MESSAGE_REACTION_REMOVE_ALL {message_id}: the reactions of a cached message
\* are cleared and message._reactions is set to undefined.
MESSAGE_REACTION_REMOVE_ALL ==
  /\ eEvents < MaxEvents
  /\ IF rCached /\ rAlloc
       THEN /\ rAlloc' = FALSE
            /\ rHas' = {}
            /\ rCounts' = [e \in Emojis |-> 0]
       ELSE UNCHANGED <<rAlloc, rHas, rCounts>>
  /\ eLast' = Emitted("MESSAGE_REACTION_REMOVE_ALL", "", rCached, FALSE, "")
  /\ eEvents' = eEvents + 1
  /\ UNCHANGED <<eGuild, ePremium, eRoles, eObjects, eMembers, eVoice,
                 eListening, rCached, procVars, bcastVars, packetVars, cacheVars, mergeVars>>

\* The message SpecReactions starts from: cached or not, and if cached without
\* reactions or with reaction e1 of count 1 or 2 and perhaps e2 of count 1.
ReactionsInit ==
  /\ MergeIdle
  /\ eGuild = FALSE
  /\ ePremium = 0
  /\ eRoles = [r \in RoleIds |-> 0]
  /\ eObjects = 0
  /\ eMembers = [u \in UserIds |-> NoEntMember]
  /\ eVoice = [u \in UserIds |-> "none"]
  /\ eListening = FALSE
  /\ rCached \in BOOLEAN
  /\ rHas \in (IF rCached THEN {{}, {"e1"}, {"e1", "e2"}} ELSE {{}})
  /\ rAlloc = (rHas # {})
  /\ \E n \in 1..MaxEvents :
       rCounts = [e \in Emojis |-> IF e \notin rHas THEN 0
                                   ELSE IF e = "e1" THEN n ELSE 1]
  /\ eEvents = 0
  /\ eLast = Emitted("none", "", FALSE, FALSE, "")

\* the ClusterProcess part of the state where no ClusterProcess is modelled
ProcIdle == ProcInit /\ ~respawn

InitLife == ProcInit /\ BcastIdle /\ PacketIdle /\ CacheIdle /\ EntIdle

NextLife ==
  \/ run
  \/ timeoutFires
  \/ childReady
  \/ parentReceives
  \/ childExits

SpecLife == InitLife /\ [][NextLife]_vars

\* The ClusterProcess of a manager without auto-respawn, after run() has
\* forked child 1 and resolved on its READY
InitEval ==
  /\ BcastIdle
  /\ PacketIdle
  /\ CacheIdle
  /\ EntIdle
  /\ respawn = FALSE
  /\ process = 1
  /\ forked = 1
  /\ alive = {1}
  /\ killed = {}
  /\ runs = <<[child |-> 1, timer |-> "none", listening |-> FALSE,
               state |-> Resolved(ChildRef(1)), by |-> "user"]>>
  /\ evalsWaiting = [n \in Nonces |-> 0]
  /\ regs = <<>>
  /\ otherCalls = <<>>
  /\ toChild = [c \in Children |-> <<>>]
  /\ fromChild = [c \in Children |-> <<>>]
  /\ announced = {1}
  /\ childSends = 0
  /\ executed = 0
  /\ warns = 0
  /\ childWarns = 0
  /\ lastClose = <<>>

NextEval ==
  \/ eval
  \/ sendRejects
  \/ sendIPC
  \/ parentReceives
  \/ childOnMessage
  \/ childBroadcastEval
  \/ childExits

SpecEval == InitEval /\ [][NextEval]_vars

InitBcast == ProcIdle /\ BcastInit /\ PacketIdle /\ CacheIdle /\ EntIdle

NextBcast ==
  \/ bBroadcastEval
  \/ bParentOnMessage
  \/ bChildOnMessage
  \/ bWorkerExits

SpecBcast == InitBcast /\ [][NextBcast]_vars

InitPacket == ProcIdle /\ BcastIdle /\ PacketInit /\ CacheIdle /\ EntIdle

NextPacket ==
  \/ onPacket
  \/ readyResumes

SpecPacket == InitPacket /\ [][NextPacket]_vars

\* ------------------------------------------------------------- SpecCache
InitCache == ProcIdle /\ BcastIdle /\ PacketIdle /\ CacheInit /\ EntIdle
NextCache ==
  \/ GUILD_MEMBER_ADD
  \/ GUILD_MEMBER_REMOVE
  \/ GUILD_ROLE_DELETE
  \/ GUILD_DELETE
SpecCache == InitCache /\ [][NextCache]_vars

\* ------------------------------------------------------------- SpecSweep
InitSweep == ProcIdle /\ BcastIdle /\ PacketIdle /\ SweepInit /\ EntIdle
NextSweep == GUILD_MEMBER_ADD \/ GUILD_DELETE
SpecSweep == InitSweep /\ [][NextSweep]_vars

\* ------------------------------------------------------------ SpecChunks
InitChunks == ProcIdle /\ BcastIdle /\ PacketIdle /\ ChunksInit /\ EntIdle
NextChunks == READY \/ GUILD_CREATE \/ GUILD_DELETE \/ chunkTimerFires
SpecChunks == InitChunks /\ [][NextChunks]_vars
\* a timer that was started and is not started again runs its callback
SpecChunksFair == SpecChunks /\ WF_vars(chunkTimerFires)

\* ------------------------------------------------------------- SpecReady
NextReady == READY \/ GUILD_MEMBER_ADD
SpecReady == InitCache /\ [][NextReady]_vars

\* ------------------------------------------------------------ SpecEntity
InitEntity == ProcIdle /\ BcastIdle /\ PacketIdle /\ CacheIdle /\ EntInit
NextEntity ==
  \/ GUILD_MEMBER_UPDATE
  \/ GUILD_ROLE_CREATE
  \/ GUILD_ROLE_UPDATE
  \/ VOICE_STATE_UPDATE
SpecEntity == InitEntity /\ [][NextEntity]_vars

\* --------------------------------------------------------- SpecReactions
InitReactions == ProcIdle /\ BcastIdle /\ PacketIdle /\ CacheIdle /\ ReactionsInit
NextReactions ==
  \/ MESSAGE_REACTION_ADD
  \/ MESSAGE_REACTION_REMOVE
  \/ MESSAGE_REACTION_REMOVE_ALL
SpecReactions == InitReactions /\ [][NextReactions]_vars

\* ------------------------------------------------------------- SpecMerge
InitMerge ==
  ProcIdle /\ BcastIdle /\ PacketIdle /\ CacheIdle /\ EntityIdle /\ MergeInit
SpecMerge == InitMerge /\ [][Member_merge]_vars

\* ================================================================ claims
\* Steps, recognised by what they change.
\* the 'exit' event of a child
ExitStep == \E c \in alive : c \notin alive'
\* the parent receives the oldest envelope child c has sent
ParentReceivesFrom(c) ==
  /\ c \in alive /\ c \in alive'
  /\ fromChild[c] # <<>>
  /\ fromChild'[c] = Tail(fromChild[c])
\* child c receives the oldest envelope sent to it
ChildReceives(c) ==
  /\ c \in alive /\ c \in alive'
  /\ toChild[c] # <<>>
  /\ toChild'[c] = Tail(toChild[c])
\* registration i is unsettled: neither of its promises has settled
Unsettled(i) == regs[i].inner = Pending /\ regs[i].outer = Pending
\* envelope m reaches the listener of registration i, attached to child c
Reaches(m, c, i) ==
  /\ regs[i].listening /\ regs[i].child = c
  /\ m.op = "EVAL" /\ m.data.nonce = regs[i].nonce

\* C1: when a child exits with code c and signal s, every nonce in
\* _evalsWaiting is removed from the table, and the promise of the caller that
\* registered a nonce still pending there resolves with [Error, true], the
\* Error naming c and s (the payload of the 'close' event).
C1_ExitResolvesWaiting ==
  [][ExitStep =>
        \A n \in Nonces :
          evalsWaiting[n] # 0 =>
            /\ evalsWaiting'[n] = 0
            /\ regs[evalsWaiting[n]].outer = Pending =>
                 regs'[evalsWaiting[n]].outer =
                   Resolved(Pair(ExitError(lastClose'[1], lastClose'[2]), TRUE))]_vars

C1_Witness ==
  /\ lastClose # <<>>
  /\ \A n \in Nonces : evalsWaiting[n] = 0
  /\ \E i \in DOMAIN regs :
       regs[i].outer = Resolved(Pair(ExitError(lastClose[1], lastClose[2]), TRUE))

\* C2: after the worker's exit no eval caller remains pending: neither the
\* caller that registered the nonce (it holds the outer promise) nor a caller
\* that reused the pending nonce (it holds item.promise).
C2_NoCallerPendingAfterExit ==
  \A i \in DOMAIN regs :
    regs[i].child \notin alive =>
      /\ regs[i].outer # Pending
      /\ regs[i].reusers > 0 => regs[i].inner # Pending

\* C3: an eval for a nonce that is still waiting sends no second EVAL request
\* and builds no second registration; when the matching response reaches the
\* registration while it is unsettled, the promise of the registering caller
\* and the promise handed to the reusing callers resolve with the same value;
\* and a settled promise never changes again.
C3_ReuseSharesOneRequest ==
  [][/\ \A i \in DOMAIN regs :
          regs'[i].reusers > regs[i].reusers =>
            toChild' = toChild /\ Len(regs') = Len(regs)
     /\ \A c \in Children :
          ParentReceivesFrom(c) =>
            \A i \in DOMAIN regs :
              (Reaches(Head(fromChild[c]), c, i) /\ Unsettled(i)
                 /\ ~Head(fromChild[c]).request) =>
                /\ regs'[i].inner.s = "resolved"
                /\ regs'[i].outer = regs'[i].inner
     /\ \A i \in DOMAIN regs :
          /\ regs[i].inner # Pending => regs'[i].inner = regs[i].inner
          /\ regs[i].outer # Pending => regs'[i].outer = regs[i].outer]_vars

C3_Witness ==
  \E i \in DOMAIN regs :
    /\ regs[i].reusers > 0
    /\ regs[i].inner.s = "resolved"
    /\ regs[i].outer = regs[i].inner
    /\ regs[i].child \in alive

\* C4: a child that receives an EVAL request for a shard it does not own runs
\* no code and answers with ignored = true under the same nonce; the listener
\* resolves an unsettled eval to null on an ignored answer, and to the pair
\* [null, false] on the answer of a child that ran the code and got null.
C4_NotOwnedIsIgnored ==
  [][/\ \A c \in Children :
          (ChildReceives(c) /\ Head(toChild[c]).op = "EVAL"
             /\ Head(toChild[c]).request
             /\ Head(toChild[c]).shard # NoShard
             /\ Head(toChild[c]).shard \notin OwnedShards) =>
            /\ executed' = executed
            /\ Len(fromChild'[c]) = Len(fromChild[c]) + 1
            /\ LET a == fromChild'[c][Len(fromChild'[c])] IN
               /\ a.op = "EVAL" /\ ~a.request
               /\ a.data.ignored
               /\ a.data.nonce = Head(toChild[c]).data.nonce
     /\ \A c \in Children :
          ParentReceivesFrom(c) =>
            \A i \in DOMAIN regs :
              (Reaches(Head(fromChild[c]), c, i) /\ Unsettled(i)) =>
                LET d == Head(fromChild[c]).data IN
                /\ d.ignored => regs'[i].inner = Resolved(JSNull)
                /\ (~d.ignored /\ d.error = Undef /\ d.result = JSNull) =>
                     regs'[i].inner = Resolved(Pair(JSNull, FALSE))]_vars

C4_Witness ==
  /\ executed = 0
  /\ \E i \in DOMAIN regs :
       regs[i].inner = Resolved(JSNull) /\ regs[i].outer = Resolved(JSNull)

\* C5: when the code of an EVAL request throws in the child, the child sends
\* one response under the same nonce whose error field holds
\* {message, name, stack}.
C5_ThrowIsAnswered ==
  [][\A c \in Children :
       (ChildReceives(c) /\ Head(toChild[c]).op = "EVAL"
          /\ Head(toChild[c]).request
          /\ (Head(toChild[c]).shard = NoShard
                \/ Head(toChild[c]).shard \in OwnedShards)
          /\ Head(toChild[c]).data.code \in {"throwError", "throwNil"}) =>
         /\ Len(fromChild'[c]) = Len(fromChild[c]) + 1
         /\ LET a == fromChild'[c][Len(fromChild'[c])] IN
            /\ a.op = "EVAL" /\ ~a.request
            /\ a.data.nonce = Head(toChild[c]).data.nonce
            /\ a.data.error # Undef]_vars

\* C7: an envelope with request = true never settles a pending evaluate.
C7_RequestNeverSettles ==
  [][\A c \in Children :
       (ParentReceivesFrom(c) /\ Head(fromChild[c]).request) =>
         \A i \in DOMAIN regs :
           Unsettled(i) => regs'[i].inner = Pending /\ regs'[i].outer = Pending]_vars

\* the timer of run i fires
TimerFires(i) == runs[i].timer = "armed" /\ runs'[i].timer = "fired"

\* C8 as claimed: when the timeout of run() expires first, the child is
\* killed (or gone), the process handle is cleared and run() rejects.
C8_TimeoutClearsHandle ==
  [][\A i \in DOMAIN runs :
       TimerFires(i) =>
         /\ runs[i].child \in killed' \/ runs[i].child \notin alive'
         /\ process' = NoChild
         /\ runs'[i].state = Rejected(TimeoutError)]_vars

\* C8, amended: a READY of the child of a run() that waits under a timeout
\* resolves that run with the child and stops its timer; when the timeout
\* expires first run() rejects, and it kills the child and clears the handle
\* exactly when the handle still refers to that child, leaving the handle and
\* the children alone otherwise; a stopped timer never fires and a settled
\* run() never settles again.
C8_ReadyOrTimeout ==
  [][/\ \A i \in DOMAIN runs :
          TimerFires(i) =>
            /\ runs[i].state = Pending
            /\ runs'[i].state = Rejected(TimeoutError)
            /\ IF process = runs[i].child
                 THEN process' = NoChild /\ killed' = killed \cup {runs[i].child}
                 ELSE process' = process /\ killed' = killed
     /\ \A c \in Children :
          (ParentReceivesFrom(c) /\ Head(fromChild[c]).op = "READY") =>
            \A i \in DOMAIN runs :
              (runs[i].child = c /\ runs[i].timer = "armed") =>
                /\ runs'[i].state = Resolved(ChildRef(c))
                /\ runs'[i].timer = "stopped"
     /\ \A i \in DOMAIN runs :
          /\ runs[i].timer = "stopped" => runs'[i].timer = "stopped"
          /\ runs[i].state # Pending => runs'[i].state = runs[i].state]_vars

C8_Witness ==
  /\ \E i \in DOMAIN runs :
       /\ runs[i].timer = "fired"
       /\ runs[i].state = Rejected(TimeoutError)
       /\ runs[i].child \in killed
  /\ \E i \in DOMAIN runs :
       /\ runs[i].timer = "stopped"
       /\ runs[i].state = Resolved(ChildRef(runs[i].child))

\* C9: at the exit of a child, with manager.respawn either a new child is
\* forked at once, becomes the handle and has not readied up, or the failed
\* spawn is emitted as one 'warn' and the handle is null; without
\* manager.respawn the handle is null and nothing is forked, and only a call
\* of run() forks a child or sets the handle afterwards.
C9_ExitRespawnsOrStaysNull ==
  [][/\ ExitStep =>
          IF respawn
            THEN \/ /\ forked' = forked + 1
                    /\ process' = forked'
                    /\ process' \in alive' \ announced'
                    /\ warns' = warns
                 \/ /\ forked' = forked
                    /\ process' = NoChild
                    /\ warns' = warns + 1
            ELSE process' = NoChild /\ forked' = forked /\ warns' = warns
     /\ (~respawn /\ (forked' # forked \/ (process = NoChild /\ process' # NoChild))) =>
          /\ Len(runs') = Len(runs) + 1
          /\ runs'[Len(runs')].by = "user"]_vars

C9_Witness ==
  /\ respawn
  /\ lastClose # <<>>
  /\ process # NoChild
  /\ process \in alive \ announced
  /\ runs[Len(runs)].by = "respawn"

\* C6: once the request of a broadcast over live workers has been fanned out,
\* every worker has handled it and nothing is in flight any more, the caller
\* has its list: the broadcast is resolved with one outcome per worker in
\* plan order, an error value in the slot of a worker whose code threw and
\* the returned value in every other slot.
C6_BroadcastReturnsAll ==
  (/\ bCollect # "idle"
   /\ bAlive = Workers
   /\ \A w \in Workers : bDown[w] = <<>> /\ bUp[w] = <<>>) =>
    /\ bPromise.s = "resolved"
    /\ Len(bPromise.v) = MaxWorkers
    /\ \A w \in Workers :
         IF EvalCode(bCode[w]).how = "throws"
           THEN bPromise.v[w].t = "ClusterIPCError"
           ELSE bPromise.v[w] = EvalCode(bCode[w]).v

\* C10: a handler call that ends in an exception lets nothing through to the
\* caller of onPacket and emits a warning.
C10_HandlerThrowIsCaught ==
  [][handlerThrew' > handlerThrew =>
       /\ propagated' = propagated
       /\ rejections' = rejections
       /\ Len(emitted') > Len(emitted)
       /\ emitted'[Len(emitted')].event = "WARN"]_vars

\* packet n is a DISPATCH packet
IsDispatch(n) == packets[n].op = "DISPATCH"
\* the positions of the notification `note` in the log
Positions(note) == {k \in DOMAIN emitted : emitted[k] = note}
\* the handler calls made for packet n
CallsFor(n) == {k \in DOMAIN handled : handled[k].packet = n}

\* C11: whatever the options of the constructor were, READY is not in the
\* disabled set, and every READY packet received has been passed to the READY
\* handler.
C11_ReadyNeverDisabled ==
  /\ "READY" \notin disabledEvents
  /\ \A n \in DOMAIN packets :
       (IsDispatch(n) /\ packets[n].t = "READY") =>
         \E k \in CallsFor(n) : handled[k].name = "READY"

C11_Witness ==
  /\ disabledEvents = DispatchEvents \ {"READY"}
  /\ \E n \in DOMAIN packets : IsDispatch(n) /\ packets[n].t = "READY"
  /\ \E k \in DOMAIN handled : handled[k].name = "READY"

\* C12: with a RAW listener every DISPATCH packet received has exactly one RAW
\* notification, disabled or without handler or not, and that notification
\* precedes the call of its handler and every other notification of the
\* packet.
C12_RawOncePerDispatch ==
  rawListener =>
    \A n \in DOMAIN packets :
      IsDispatch(n) =>
        /\ Cardinality(Positions(Note("RAW", n))) = 1
        /\ \A k \in CallsFor(n) :
             \E r \in Positions(Note("RAW", n)) : r <= handled[k].at
        /\ \A j \in DOMAIN emitted :
             (emitted[j].packet = n /\ emitted[j].event # "RAW") =>
               \E r \in Positions(Note("RAW", n)) : r < j

C12_Witness ==
  /\ rawListener
  /\ \E n \in DOMAIN packets :
       /\ IsDispatch(n) /\ packets[n].t \in disabledEvents
       /\ Positions(Note("RAW", n)) # {}
  /\ \E n \in DOMAIN packets :
       /\ IsDispatch(n) /\ CallsFor(n) # {}
       /\ Positions(Note(packets[n].t, n)) # {}

\* C13: every DISPATCH packet received whose event name is not disabled and
\* is not the name of a dispatch handler has an UNKNOWN notification, and no
\* call was made for it.
C13_UnknownIsNotified ==
  \A n \in DOMAIN packets :
    (IsDispatch(n) /\ packets[n].t \notin disabledEvents
       /\ packets[n].t \notin DispatchEvents) =>
      /\ Positions(Note("UNKNOWN", n)) # {}
      /\ CallsFor(n) = {}

\* C14: the domain notifications are emitted in the order of their packets:
\* no notification of an earlier packet follows one of a later packet.
C14_NotificationsInPacketOrder ==
  \A i, j \in DOMAIN emitted :
    (/\ i < j
     /\ emitted[i].event \in DispatchEvents \cup {"GATEWAY_READY"}
     /\ emitted[j].event \in DispatchEvents \cup {"GATEWAY_READY"}) =>
      emitted[i].packet <= emitted[j].packet

\* an event of type t was handled in this step
Handles(t) == cEvents' = cEvents + 1 /\ cLast'.t = t

\* C15: for a cached guild g, a GUILD_MEMBER_ADD for (g,u) raises g.memberCount
\* by exactly 1 and leaves the member cached, and a GUILD_MEMBER_REMOVE for
\* (g,u) lowers it by exactly 1 and leaves the member absent, whether or not
\* the member was cached before the event.
C15_MemberCountByOne ==
  [][ /\ (Handles("GUILD_MEMBER_ADD") /\ cLast'.g \in cGuilds) =>
           /\ cMemberCount'[cLast'.g] = cMemberCount[cLast'.g] + 1
           /\ cMembers'[cLast'.g][cLast'.u].cached
           /\ \A g \in GuildIds \ {cLast'.g} : cMemberCount'[g] = cMemberCount[g]
      /\ (Handles("GUILD_MEMBER_REMOVE") /\ cLast'.g \in cGuilds) =>
           /\ cMemberCount'[cLast'.g] = cMemberCount[cLast'.g] - 1
           /\ ~cMembers'[cLast'.g][cLast'.u].cached
           /\ \A g \in GuildIds \ {cLast'.g} : cMemberCount'[g] = cMemberCount[g]
    ]_vars
\* two adds of one member to a cached guild: the second found it cached
C15_Witness ==
  /\ cLast.t = "GUILD_MEMBER_ADD"
  /\ cLast.g \in cGuilds
  /\ cEvents = 2
  /\ cMemberCount[cLast.g] = SomeCount + 2
  /\ GuildMembers(cMembers, cLast.g) = {cLast.u}

C17_GuildDeleteSweeps ==
  cLast.t = "GUILD_DELETE" =>
    /\ GuildMembers(cMembers, cLast.g) = {}
    /\ \A v \in cVoice : v[1] # cLast.g
    /\ cMessageType = "GUILD" => cLast.g \notin cMessages

\* the user is a member of a cached guild, a recipient of a cached DM channel
\* or has a relationship, in the state a step leads to
StillShared(u) ==
  \/ \E g \in cGuilds' : cMembers'[g][u].cached
  \/ u \in cDms'
  \/ u \in cRelations'

\* C18: GUILD_MEMBER_REMOVE evicts the user from the user store exactly when,
\* after the member is removed, the user is a member of no cached guild, a
\* recipient of no cached DM channel and has no relationship; GUILD_DELETE
\* evicts no user that is still cached through another guild, DM channel or
\* relationship.
C18_UserEvictedWhenUnshared ==
  [][ /\ Handles("GUILD_MEMBER_REMOVE") =>
           /\ cLast'.u \in cUsers' <=> (cLast'.u \in cUsers /\ StillShared(cLast'.u))
           /\ cUsers' \ {cLast'.u} = cUsers \ {cLast'.u}
      /\ Handles("GUILD_DELETE") =>
           \A u \in cUsers : StillShared(u) => u \in cUsers'
    ]_vars
\* a cached user was evicted by a remove while another guild stayed cached
\* and another user stayed cached
C18_Witness ==
  /\ cLast.t = "GUILD_MEMBER_REMOVE"
  /\ cLast.u \notin cUsers
  /\ cGuilds \ {cLast.g} # {}
  /\ cUsers # {}
  /\ cEvents = 2

\* C19 as stated: in every reachable state of the member-chunk coordinator the
\* three guild-id sets left, sending and done are pairwise disjoint.
C19_PairwiseDisjoint ==
  /\ mcLeft \cap mcSending = {}
  /\ mcLeft \cap mcDone = {}
  /\ mcSending \cap mcDone = {}
\* C19 as the code has it: in every reachable state every guild in sending is
\* also in done, and after a GUILD_CREATE for guild g, g is not in left and,
\* when all members are loaded, g is in done.
C19_SendingWithinDone ==
  /\ mcSending \subseteq mcDone
  /\ cLast.t = "GUILD_CREATE" =>
       /\ cLast.g \notin mcLeft
       /\ loadAll => cLast.g \in mcDone
\* a guild queued by GUILD_CREATE is in sending and in done, its timer pending
C19_Witness ==
  /\ cLast.t = "GUILD_CREATE"
  /\ cLast.g \in mcSending
  /\ cLast.g \in mcDone
  /\ mcTimer

\* C20: once a guild id is in done, no later READY or GUILD_CREATE puts it
\* into sending or causes another member-list request for it, until a
\* GUILD_DELETE for that guild has removed it from done.
C20_DoneIsNotRequeued ==
  [][ (Handles("READY") \/ Handles("GUILD_CREATE")) =>
        \A g \in mcDone :
          /\ g \in mcSending' => g \in mcSending
          /\ \A i \in (Len(mcRequests) + 1)..Len(mcRequests') : g \notin mcRequests'[i]
    ]_vars

\* C21: guilds queued by GUILD_CREATE events within one debounce window are
\* requested by a single requestGuildMembers call when the timer fires, that
\* call names each queued guild once, sending is empty afterwards, and
\* re-arming the timer on a later insertion requests nothing: a queued guild
\* has the timer pending and no GUILD_CREATE makes a request itself.
C21_OneRequestPerWindow ==
  [][ /\ (mcTimer /\ ~mcTimer') =>
           /\ mcSending' = {}
           /\ mcRequests' = IF mcSending = {} THEN mcRequests
                                              ELSE Append(mcRequests, mcSending)
      /\ Handles("GUILD_CREATE") =>
           /\ mcRequests' = mcRequests
           /\ mcSending' # {} => mcTimer'
           /\ mcSending \subseteq mcSending'
    ]_vars
\* two guilds queued in one window were requested by one call
C21_Witness ==
  /\ mcRequests = <<GuildIds>>
  /\ mcSending = {}
  /\ ~mcTimer
  /\ cLast.t = "GUILD_CREATE"

\* C22: READY clears all entity stores before it repopulates them: once its
\* cache population is done the guild, channel and relationship stores hold
\* only entities named in the READY payload, the user store holds the
\* client's own user and otherwise only users the payload names, and no
\* member, voice state, message or role cached before READY survives it.
C22_ReadyResetsStores ==
  cLast.t = "READY" =>
    /\ cGuilds \subseteq cLast.r
    /\ cDms \subseteq cLast.r
    /\ cRelations \subseteq cLast.r
    /\ "me" \in cUsers
    /\ cUsers \subseteq cLast.r \cup {"me"}
    /\ cVoice = {} /\ cChannels = {} /\ cMessages = {}
    /\ \A g \in GuildIds :
         /\ cGuildRoles[g] = {}
         /\ g \notin cGuilds => cMemberCount[g] = 0
         /\ \A u \in GuildMembers(cMembers, g) :
              g \in cLast.r /\ u \in cLast.r /\ cMembers[g][u].roles = {}
\* a READY naming no guild, channel or relationship, handled after a member
\* add, left the client's own user alone in the caches
C22_Witness ==
  /\ cLast.t = "READY"
  /\ cLast.r = {}
  /\ cEvents = 2
  /\ cUsers = {"me"}
  /\ cGuilds = {}

\* an entity event of type t was handled in this step
EntHandles(t) == eEvents' = eEvents + 1 /\ eLast'.t = t

\* C23: a GUILD_MEMBER_UPDATE for a cached member of a cached guild changes
\* the guild's premiumSubscriptionCount by +1 exactly when the member's boost
\* state goes from unset to set by that event, by -1 exactly when it goes from
\* set to unset, and by 0 when the member's boost state after the merge equals
\* its state before, including when the payload omits premium_since.
C23_BoostCountFollowsState ==
  [][ (EntHandles("GUILD_MEMBER_UPDATE") /\ eLast'.was /\ eGuild) =>
        LET before == eMembers[eLast'.k].boost
            after == eMembers'[eLast'.k].boost
        IN ePremium' - ePremium =
             IF ~before /\ after THEN 1 ELSE IF before /\ ~after THEN -1 ELSE 0
    ]_vars

\* C24: after GUILD_ROLE_CREATE or GUILD_ROLE_UPDATE for role r of a cached
\* guild g, every cached member of g whose role set has key r references the
\* role object stored in Guild(g).roles under r, not null and not a stale copy.
C24_MembersReferenceStoredRole ==
  (eLast.t \in {"GUILD_ROLE_CREATE", "GUILD_ROLE_UPDATE"} /\ eGuild) =>
    /\ eRoles[eLast.k] # 0
    /\ \A u \in UserIds :
         (eMembers[u].cached /\ eLast.k \in eMembers[u].keys) =>
           eMembers[u].refs[eLast.k] = eRoles[eLast.k]

\* C26: for an update event with key k (GUILD_MEMBER_UPDATE, GUILD_ROLE_UPDATE,
\* VOICE_STATE_UPDATE with a channel): afterwards the store holds an entity
\* for k; the emitted differences are non-null only if k was cached before
\* the event and a listener for that notification is registered, and they
\* hold the field values from before the merge.
C26_UpdateStoresAndDiffs ==
  [][ /\ EntHandles("GUILD_MEMBER_UPDATE") =>
           /\ eMembers'[eLast'.k].cached
           /\ eLast'.was = eMembers[eLast'.k].cached
           /\ eLast'.diff => (eLast'.was /\ eListening)
           /\ eLast'.old = IF eMembers[eLast'.k].boost THEN "set" ELSE "unset"
      /\ EntHandles("GUILD_ROLE_UPDATE") =>
           /\ eRoles'[eLast'.k] # 0
           /\ eLast'.diff => (eLast'.was /\ eListening)
      /\ (EntHandles("VOICE_STATE_UPDATE") /\ eVoice'[eLast'.k] = "chan") =>
           /\ eLast'.was = (eVoice[eLast'.k] # "none")
           /\ eLast'.diff => (eLast'.was /\ eListening)
           /\ eLast'.old = eVoice[eLast'.k]
    ]_vars

\* C27: a delete-class event (GUILD_DELETE) whose key is absent from its store
\* adds no entry to that store, the entity built for the notification being
\* transient; one whose key is present removes it.
C27_DeleteLeavesNoEntry ==
  [][ Handles("GUILD_DELETE") => cLast'.g \notin cGuilds' ]_vars

\* C28: no voice state with a null channelId is left in the voice-state
\* store: after VOICE_STATE_UPDATE with a null channel_id for (server, user)
\* the store has no entry for (server, user), whether or not one was cached
\* before the event.
C28_NoNullChannelVoiceState ==
  \A u \in UserIds : eVoice[u] # "null"

\* C29: after any sequence of MESSAGE_REACTION_ADD, MESSAGE_REACTION_REMOVE and
\* MESSAGE_REACTION_REMOVE_ALL events the reaction collection of a cached
\* message is either absent or non-empty, never an allocated empty
\* collection, and it is allocated only when the first reaction is added.
C29_ReactionsAbsentOrNonEmpty ==
  [][ /\ rAlloc' => rHas' # {}
      /\ ~rAlloc' => rHas' = {}
      /\ (~rAlloc /\ rAlloc') =>
           (EntHandles("MESSAGE_REACTION_ADD") /\ rHas' = {eLast'.k})
    ]_vars
\* the only reaction of the message was removed and the collection is gone
C29_Witness ==
  /\ eLast.t = "MESSAGE_REACTION_REMOVE"
  /\ eLast.was
  /\ rCached
  /\ ~rAlloc
  /\ rHas = {}

\* C30: MESSAGE_REACTION_REMOVE on a cached reaction with count n sets its
\* count to max(n - 1, 0) and removes the reaction from the message only when
\* the new count is 0; a reaction with n >= 2 stays on the message with count
\* n - 1, and no reaction ever has a negative count.
C30_RemoveLowersCountByOne ==
  [][ (EntHandles("MESSAGE_REACTION_REMOVE") /\ eLast'.was) =>
        LET n == rCounts[eLast'.k] IN
        /\ rCounts'[eLast'.k] = (IF n - 1 > 0 THEN n - 1 ELSE 0)
        /\ eLast'.k \in rHas' <=> n >= 2
        /\ \A e \in Emojis : rCounts'[e] >= 0
    ]_vars

\* C25: an IPC send operation of ClusterProcess resolves only if the message
\* was handed to the child's channel without error; when the send fails the
\* operation rejects to its caller, and an eval whose request could not be
\* sent rejects with that error and removes its message listener.
C25_SendResolvesOnlyIfHanded ==
  [][ /\ (Len(otherCalls') = Len(otherCalls) + 1
          /\ otherCalls'[Len(otherCalls')] \in {"ipcSent", "ipcNoChild"}) =>
           \E c \in Children : Len(toChild'[c]) = Len(toChild[c]) + 1
      /\ (Len(otherCalls') = Len(otherCalls) + 1
          /\ otherCalls'[Len(otherCalls')] = "ipcRejected") =>
           toChild' = toChild
      /\ \A i \in DOMAIN regs' :
           regs'[i].send = "failed" =>
             /\ regs'[i].inner = Rejected(SendError)
             /\ regs'[i].outer = Rejected(SendError)
             /\ ~regs'[i].listening
    ]_vars

C32_MemberUserInStore ==
  \A g \in GuildIds, u \in UserIds : cMembers[g][u].cached => u \in cUsers

\* C34: after run() has rejected on a spawn timeout no child process of the
\* worker is alive (other than one that was sent the kill signal and has not
\* exited yet) and none is started until run() is called again by the user,
\* also when the manager is configured to auto-respawn.
C34_NoChildAfterSpawnTimeout ==
  \A i \in DOMAIN runs :
    ( /\ runs[i].timer = "fired"
      /\ runs[i].state = Rejected(TimeoutError)
      /\ \A j \in DOMAIN runs : j > i => runs[j].by # "user" )
    => alive \subseteq killed

\* C36: a ClusterProcess has at most one live child at any time (a child
\* that was sent the kill signal aside) and its process handle refers to the
\* most recently forked child that has not exited: the exit event of an
\* earlier child does not clear the handle of a newer child.
C36_HandleIsNewestLiveChild ==
  /\ Cardinality(alive \ killed) <= 1
  /\ \A c \in alive \ killed : process = c

\* a name with its letters in lower case
LowerCased(v) ==
  CASE v = "READY" -> "ready"
    [] v = "GUILD_MEMBER_ADD" -> "guild_member_add"
    [] v = "GUILD_INTEGRATIONS_UPDATE" -> "guild_integrations_update"
    [] OTHER -> v
\* the name is in the list when letter case is ignored
ListsName(list, name) == \E v \in list : LowerCased(v) = LowerCased(name)

\* C35: when whitelistedEvents is given, a dispatch event is handled if and
\* only if its name, compared case-insensitively, is in the whitelist or is
\* READY, and the disabledEvents option has no effect; when only
\* disabledEvents is given, an event is handled if and only if its name is not
\* in that list, letter case ignored, or is READY.
C35_FilterFollowsOptions ==
  \A n \in DOMAIN packets :
    (IsDispatch(n) /\ packets[n].t \in DispatchEvents) =>
      ( (\E k \in CallsFor(n) : handled[k].name = packets[n].t)
        <=> \/ packets[n].t = "READY"
            \/ IF handlerOptions.whitelistedEvents.given
                 THEN ListsName(handlerOptions.whitelistedEvents.names, packets[n].t)
                 ELSE ~ListsName(handlerOptions.disabledEvents, packets[n].t) )
\* a whitelist in lower case lets its event through although disabledEvents
\* lists the same event, and keeps another event out
C35_Witness ==
  /\ handlerOptions.whitelistedEvents.given
  /\ "guild_member_add" \in handlerOptions.whitelistedEvents.names
  /\ "guild_member_add" \in handlerOptions.disabledEvents
  /\ \E k \in DOMAIN handled : handled[k].name = "GUILD_MEMBER_ADD"
  /\ \E n \in DOMAIN packets :
       /\ IsDispatch(n) /\ packets[n].t = "GUILD_INTEGRATIONS_UPDATE"
       /\ CallsFor(n) = {}

\* C37: a nonce is in _evalsWaiting exactly while its eval is unsettled: the
\* entry of a nonce belongs to an eval whose promise is still pending, and
\* every eval whose promise is pending has the entry of its nonce.
C37_WaitingIffUnsettled ==
  /\ \A n \in Nonces :
       evalsWaiting[n] # 0 => regs[evalsWaiting[n]].outer = Pending
  /\ \A i \in DOMAIN regs :
       regs[i].outer = Pending => evalsWaiting[regs[i].nonce] = i

\* the child of the worker that started the broadcast handles the envelope at
\* the head of its channel in this step
CallerHandles ==
  /\ bCaller \in bAlive /\ bAlive' = bAlive
  /\ bDown[bCaller] # <<>>
  /\ bDown'[bCaller] = Tail(bDown[bCaller])

\* C38: a worker that started a broadcast evaluate with nonce N and then
\* receives the manager's fanned-out EVAL request carrying the same nonce
\* executes that request like any other worker and does not complete its own
\* broadcast from it; its broadcast promise settles only on the EVAL envelope
\* with nonce N and request=false, and settles at most once.
C38_BroadcastSettlesOnAnswerOnly ==
  [][/\ (CallerHandles /\ Head(bDown[bCaller]).request) =>
          /\ bExecuted'[bCaller] = bExecuted[bCaller] + 1
          /\ bPromise' = bPromise
          /\ bListening' = bListening
     /\ (bPromise = Pending /\ bPromise' # bPromise) =>
          /\ CallerHandles
          /\ ~Head(bDown[bCaller]).request
          /\ Head(bDown[bCaller]).op = "EVAL"
          /\ Head(bDown[bCaller]).data.nonce = BNonce
     /\ bPromise.s \in {"resolved", "rejected"} => bPromise' = bPromise]_vars
\* the initiator ran the fanned-out request itself and its broadcast resolved
\* afterwards with one outcome per worker
C38_Witness ==
  /\ bExecuted[bCaller] = 1
  /\ bPromise.s = "resolved"
  /\ Len(bPromise.v) = MaxWorkers

\* C39: a guild that receives GUILD_DELETE after being queued in sending and
\* before the debounce timer fires is not named in the flushed member-list
\* request: the GUILD_DELETE takes it out of sending and requests nothing,
\* and the firing timer requests exactly the guilds in sending at that
\* moment; a timer that fires with an empty sending set issues no request.
C39_DeletedGuildNotRequested ==
  [][ /\ Handles("GUILD_DELETE") =>
           /\ cLast'.g \notin mcSending'
           /\ mcRequests' = mcRequests
      /\ (mcTimer /\ ~mcTimer' /\ mcSending # {}) =>
           /\ Len(mcRequests') = Len(mcRequests) + 1
           /\ mcRequests'[Len(mcRequests')] = mcSending
      /\ (mcTimer /\ ~mcTimer' /\ mcSending = {}) => mcRequests' = mcRequests
    ]_vars
\* the one queued guild was deleted while the timer was pending
C39_Witness ==
  /\ cLast.t = "GUILD_DELETE"
  /\ cEvents = 2
  /\ mcTimer
  /\ mcSending = {}
  /\ cLast.g \notin mcDone
  /\ mcRequests = <<>>

\* C40: with member loading enabled, every guild id placed into sending is
\* eventually either named in a requestGuildMembers call or removed by a
\* GUILD_DELETE for that guild, once GUILD_CREATE events have stopped
\* re-arming the timer; no guild id stays in sending forever.
C40_SendingIsFlushed ==
  \A g \in GuildIds :
    (loadAll /\ g \in mcSending) ~>
      ( /\ g \notin mcSending
        /\ \/ \E i \in DOMAIN mcRequests : g \in mcRequests[i]
           \/ cLast.t = "GUILD_DELETE" /\ cLast.g = g )
\* the guild one GUILD_CREATE queued has been requested by the timer
C40_Witness ==
  /\ loadAll
  /\ cEvents = 1
  /\ cLast.t = "GUILD_CREATE"
  /\ mcRequests = <<{cLast.g}>>
  /\ mcSending = {}
  /\ ~mcTimer

====
